---- MODULE Spec2Model ----
(***************************************************************************)
(* Document validity checker of govguidebot (document_validity_checker.py) *)
(*                                                                         *)
(* A document text is a TLA+ string over printable ASCII plus "\n".  The   *)
(* regular expressions and substring tests of the checker are evaluated    *)
(* character by character on that string.  Keywords and terms of the       *)
(* source that are written in Devanagari (and the rupee sign) cannot occur *)
(* in such a text; they are left out of the term lists, which is the same  *)
(* as their never matching.                                                *)
(*                                                                         *)
(* Scores are floating-point numbers in the source.  The model keeps them  *)
(* as exact integers: classification totals in tenths, validity scores in  *)
(* units of 1/ScoreScale.                                                  *)
(***************************************************************************)
EXTENDS Integers, Sequences, FiniteSets, TLC

VARIABLES text, op, arg, result

\* the analytics log: the list validation_history of the global analytics
\* object, every entry handed to it so far, and for each thread inside
\* log_validation the place it has reached and the values it holds
VARIABLES validation_history, logged, pc, local

log_state == <<validation_history, logged, pc, local>>

\* the update scheduler: the flag is_running and the attribute
\* scheduler_thread of the UpdateScheduler object, the number of jobs in the
\* registry of the schedule module, and for each thread that start_scheduler
\* has created the place it has reached in run_scheduler
VARIABLES is_running, scheduler_thread, jobs, loop

scheduler_state == <<is_running, scheduler_thread, jobs, loop>>

vars == <<text, op, arg, result, log_state, scheduler_state>>

----------------------------------------------------------------------------
(* Characters and strings                                                  *)

Digits == {"0", "1", "2", "3", "4", "5", "6", "7", "8", "9"}

UpperLetters ==
    {"A", "B", "C", "D", "E", "F", "G", "H", "I", "J", "K", "L", "M",
     "N", "O", "P", "Q", "R", "S", "T", "U", "V", "W", "X", "Y", "Z"}

LowerLetters ==
    {"a", "b", "c", "d", "e", "f", "g", "h", "i", "j", "k", "l", "m",
     "n", "o", "p", "q", "r", "s", "t", "u", "v", "w", "x", "y", "z"}

Letters == UpperLetters \cup LowerLetters

\* \s of the re module, restricted to the whitespace a text can hold
Whitespace == {" ", "\n", "\t"}

\* \w of the re module on ASCII
WordChars == Letters \cup Digits \cup {"_"}

ToLower ==
    [c \in UpperLetters |->
        CASE c = "A" -> "a" [] c = "B" -> "b" [] c = "C" -> "c" [] c = "D" -> "d"
          [] c = "E" -> "e" [] c = "F" -> "f" [] c = "G" -> "g" [] c = "H" -> "h"
          [] c = "I" -> "i" [] c = "J" -> "j" [] c = "K" -> "k" [] c = "L" -> "l"
          [] c = "M" -> "m" [] c = "N" -> "n" [] c = "O" -> "o" [] c = "P" -> "p"
          [] c = "Q" -> "q" [] c = "R" -> "r" [] c = "S" -> "s" [] c = "T" -> "t"
          [] c = "U" -> "u" [] c = "V" -> "v" [] c = "W" -> "w" [] c = "X" -> "x"
          [] c = "Y" -> "y" [] c = "Z" -> "z"]

\* the character of s at position i, "" outside s
CharAt(s, i) == IF i >= 1 /\ i <= Len(s) THEN SubSeq(s, i, i) ELSE ""

\* the characters lo..hi of s, each replaced by its lower-case form
RECURSIVE LowerRange(_, _, _)
LowerRange(s, lo, hi) ==
    IF lo > hi THEN ""
    ELSE IF lo = hi
         THEN LET c == SubSeq(s, lo, lo)
              IN  IF c \in UpperLetters THEN ToLower[c] ELSE c
         ELSE LET mid == (lo + hi) \div 2
              IN  LowerRange(s, lo, mid) \o LowerRange(s, mid + 1, hi)

\* str.lower()
Lower(s) == LowerRange(s, 1, Len(s))

\* the position just after the longest run of characters of class from i
RunEnd(s, i, class) ==
    CHOOSE j \in i..(Len(s) + 1) :
        /\ j > Len(s) \/ SubSeq(s, j, j) \notin class
        /\ \A k \in i..(j - 1) : SubSeq(s, k, k) \in class

\* the position just after the longest run of characters outside class from i
RunEndNot(s, i, class) ==
    CHOOSE j \in i..(Len(s) + 1) :
        /\ j > Len(s) \/ SubSeq(s, j, j) \in class
        /\ \A k \in i..(j - 1) : SubSeq(s, k, k) \notin class

\* needle in s
Contains(s, needle) ==
    \E i \in 1..(Len(s) - Len(needle) + 1) : SubSeq(s, i, i + Len(needle) - 1) = needle

\* s.startswith(prefix)
StartsWith(s, prefix) ==
    Len(s) >= Len(prefix) /\ SubSeq(s, 1, Len(prefix)) = prefix

\* str.split(): the sequence of maximal runs of non-whitespace characters
RECURSIVE SplitFrom(_, _)
SplitFrom(s, i) ==
    LET start == RunEnd(s, i, Whitespace)
        end == RunEndNot(s, start, Whitespace)
    IN  IF start > Len(s) THEN <<>>
        ELSE <<SubSeq(s, start, end - 1)>> \o SplitFrom(s, end)

Split(s) == SplitFrom(s, 1)

\* the characters lo..hi of ' '.join(s.split()): the characters of s that
\* are not whitespace, and one space for every run of whitespace that lies
\* between two words
RECURSIVE NormalizeRange(_, _, _)
NormalizeRange(s, lo, hi) ==
    IF lo > hi THEN ""
    ELSE IF lo = hi
         THEN LET c == SubSeq(s, lo, lo)
              IN  IF c \notin Whitespace THEN c
                  ELSE IF /\ lo > 1
                          /\ SubSeq(s, lo - 1, lo - 1) \notin Whitespace
                          /\ RunEnd(s, lo, Whitespace) <= Len(s)
                       THEN " "
                       ELSE ""
         ELSE LET mid == (lo + hi) \div 2
              IN  NormalizeRange(s, lo, mid) \o NormalizeRange(s, mid + 1, hi)

\* ' '.join(s.split())
JoinSplit(s) == NormalizeRange(s, 1, Len(s))

\* str.strip()
Strip(s) ==
    LET first == RunEnd(s, 1, Whitespace)
        last == CHOOSE j \in 0..Len(s) :
                    /\ j = 0 \/ SubSeq(s, j, j) \notin Whitespace
                    /\ \A k \in (j + 1)..Len(s) : SubSeq(s, k, k) \in Whitespace
    IN  IF first > Len(s) THEN "" ELSE SubSeq(s, first, last)

Min(a, b) == IF a < b THEN a ELSE b
Max(a, b) == IF a > b THEN a ELSE b

RECURSIVE SumSeq(_, _)
SumSeq(f, i) == IF i > Len(f) THEN 0 ELSE f[i] + SumSeq(f, i + 1)

\* the number of entries of a list of terms that occur in s
CountTerms(terms, s) == Cardinality({i \in 1..Len(terms) : Contains(s, terms[i])})

\* the entries of a list of terms that occur in s, in list order
RECURSIVE MatchedTerms(_, _, _)
MatchedTerms(terms, s, i) ==
    IF i > Len(terms) THEN <<>>
    ELSE (IF Contains(s, terms[i]) THEN <<terms[i]>> ELSE <<>>)
         \o MatchedTerms(terms, s, i + 1)

----------------------------------------------------------------------------
(* Regular expressions.  A pattern is named by its source text; MatchAt    *)
(* gives, for a pattern and a start position, the position just after the  *)
(* match the re module finds there, or 0 when the pattern does not match   *)
(* at that position.  Field patterns are used with re.IGNORECASE, so they  *)
(* are matched against the lower-cased text.                               *)

\* \d{n}
DigitsAt(s, i, n) == \A k \in 0..(n - 1) : CharAt(s, i + k) \in Digits

DateSeps == {"/", "-"}

\* \d{lo,hi}[/-] : the position after the separator, 0 if no match
DayMonthAt(s, i, lo, hi) ==
    LET e == RunEnd(s, i, Digits)
        n == e - i
    IN  IF n >= lo /\ n <= hi /\ CharAt(s, e) \in DateSeps THEN e + 1 ELSE 0

\* \d{lo,hi}[/-]\d{lo,hi}[/-]\d{4}
DateAt(s, i, lo, hi) ==
    LET m == DayMonthAt(s, i, lo, hi)
        y == IF m = 0 THEN 0 ELSE DayMonthAt(s, m, lo, hi)
    IN  IF y # 0 /\ DigitsAt(s, y, 4) THEN y + 4 ELSE 0

\* \d{4}[/-]\d{1,2}[/-]\d{1,2}
YearFirstDateAt(s, i) ==
    LET m == DayMonthAt(s, i, 4, 4)
        d == IF m = 0 THEN 0 ELSE DayMonthAt(s, m, 1, 2)
    IN  IF d # 0 /\ DigitsAt(s, d, 1)
        THEN (IF DigitsAt(s, d, 2) THEN d + 2 ELSE d + 1)
        ELSE 0

TwelveDigitSeps == Whitespace \cup {"-"}

\* \d{4}[\s\-]*\d{4}[\s\-]*\d{4}
TwelveDigitAt(s, i) ==
    LET a == IF DigitsAt(s, i, 4) THEN RunEnd(s, i + 4, TwelveDigitSeps) ELSE 0
        b == IF a # 0 /\ DigitsAt(s, a, 4) THEN RunEnd(s, a + 4, TwelveDigitSeps) ELSE 0
    IN  IF b # 0 /\ DigitsAt(s, b, 4) THEN b + 4 ELSE 0

\* \b at position i: exactly one of the characters before and at i is a word character
WordBoundary(s, i) == (CharAt(s, i - 1) \in WordChars) # (CharAt(s, i) \in WordChars)

\* \b\d{4}[\s\-]*\d{4}[\s\-]*\d{4}\b
BoundedTwelveDigitAt(s, i) ==
    LET e == TwelveDigitAt(s, i)
    IN  IF e # 0 /\ WordBoundary(s, i) /\ WordBoundary(s, e) THEN e ELSE 0

\* [A-Za-z\s]{lo,50}
NameAt(s, i, lo) ==
    LET n == Min(RunEnd(s, i, Letters \cup Whitespace) - i, 50)
    IN  IF n >= lo THEN i + n ELSE 0

\* (a|b|...) : the first alternative, in order, that is found at i
RECURSIVE AltAt(_, _, _, _)
AltAt(alts, s, i, k) ==
    IF k > Len(alts) THEN 0
    ELSE IF i + Len(alts[k]) - 1 <= Len(s) /\ SubSeq(s, i, i + Len(alts[k]) - 1) = alts[k]
         THEN i + Len(alts[k])
         ELSE AltAt(alts, s, i, k + 1)

NumberChars == Letters \cup Digits \cup {"/", "-"}

\* no\.?\s*:?\s*([A-Z0-9/-]+)
NumberTailAt(s, i) ==
    IF i + 1 <= Len(s) /\ SubSeq(s, i, i + 1) = "no"
    THEN LET a == IF CharAt(s, i + 2) = "." THEN i + 3 ELSE i + 2
             b == RunEnd(s, a, Whitespace)
             c == IF CharAt(s, b) = ":" THEN b + 1 ELSE b
             d == RunEnd(s, c, Whitespace)
             e == RunEnd(s, d, NumberChars)
         IN  IF e > d THEN e ELSE 0
    ELSE 0

\* .*? : the positions the lazy scan from i can stop at, which are those
\* up to the end of the line
LazyStops(s, i) == i..RunEndNot(s, i, {"\n"})

\* .*?no\.?\s*:?\s*([A-Z0-9/-]+) : the scan stops at the first position
\* where the rest of the pattern matches
LazyNumberAt(s, i) ==
    LET stops == {j \in LazyStops(s, i) : NumberTailAt(s, j) # 0}
    IN  IF stops = {} THEN 0
        ELSE NumberTailAt(s, CHOOSE j \in stops : \A k \in stops : j <= k)

\* (p1|p2|...).*?no\.?\s*:?\s*([A-Z0-9/-]+)
RECURSIVE PrefixedNumberAt(_, _, _, _)
PrefixedNumberAt(prefixes, s, i, k) ==
    IF k > Len(prefixes) THEN 0
    ELSE LET p == AltAt(<<prefixes[k]>>, s, i, 1)
             e == IF p = 0 THEN 0 ELSE LazyNumberAt(s, p)
         IN  IF e # 0 THEN e ELSE PrefixedNumberAt(prefixes, s, i, k + 1)

\* .*?(\d{2}[/-]\d{2}[/-]\d{4})
LazyDateAt(s, i) ==
    LET stops == {j \in LazyStops(s, i) : DateAt(s, j, 2, 2) # 0}
    IN  IF stops = {} THEN 0
        ELSE DateAt(s, CHOOSE j \in stops : \A k \in stops : j <= k, 2, 2)

\* valid.*?(\d{2}[/-]\d{2}[/-]\d{4})
ValidityDateAt(s, i) ==
    LET p == AltAt(<<"valid">>, s, i, 1)
    IN  IF p = 0 THEN 0 ELSE LazyDateAt(s, p)

\* (?:,\d{3})*
RECURSIVE ThousandsEnd(_, _)
ThousandsEnd(s, i) ==
    IF CharAt(s, i) = "," /\ DigitsAt(s, i + 1, 3) THEN ThousandsEnd(s, i + 4) ELSE i

\* (?:rs\.?|rupees)\s*(\d{1,3}(?:,\d{3})*)
AnnualIncomeAt(s, i) ==
    LET r == AltAt(<<"rs">>, s, i, 1)
        p == IF r # 0 THEN (IF CharAt(s, r) = "." THEN r + 1 ELSE r)
             ELSE AltAt(<<"rupees">>, s, i, 1)
        d == IF p = 0 THEN 0 ELSE RunEnd(s, p, Whitespace)
        n == IF d = 0 THEN 0 ELSE Min(RunEnd(s, d, Digits) - d, 3)
    IN  IF n >= 1 THEN ThousandsEnd(s, d + n) ELSE 0

Districts ==
    <<"mumbai", "pune", "nagpur", "nashik", "aurangabad", "kolhapur",
      "satara", "sangli", "solapur", "ahmednagar">>

\* re.search(M, s) is not None, for the matcher M of a pattern
Search(M(_, _), s) == \E i \in 1..Len(s) : M(s, i) # 0

\* the least element of a set of numbers, default for the empty set
MinOr(set, default) ==
    IF set = {} THEN default ELSE CHOOSE x \in set : \A y \in set : x <= y

\* the first position from i on at which M matches, Len(s) + 1 if there is none
FirstMatch(M(_, _), s, i) == MinOr({j \in i..Len(s) : M(s, j) # 0}, Len(s) + 1)

\* len(list(re.finditer(M, s))): the matches are taken left to right, each
\* search starting where the previous match ended
RECURSIVE CountFrom(_, _, _)
CountFrom(M(_, _), s, i) ==
    LET j == FirstMatch(M, s, i)
    IN  IF j > Len(s) THEN 0 ELSE 1 + CountFrom(M, s, M(s, j))

\* the number of matches of M in s when all is TRUE; otherwise 1 or 0 as
\* M matches somewhere in s or not
Matches(M(_, _), s, all) ==
    IF all THEN CountFrom(M, s, 1) ELSE (IF Search(M, s) THEN 1 ELSE 0)

\* the patterns of the source, by their text (the alternatives in Devanagari
\* and the rupee sign are left out)
MatchPattern(pattern, s, all) ==
    CASE pattern = "\\b\\d{4}[\\s\\-]*\\d{4}[\\s\\-]*\\d{4}\\b" ->
            Matches(BoundedTwelveDigitAt, s, all)
      [] pattern = "\\d{4}[\\s\\-]*\\d{4}[\\s\\-]*\\d{4}" ->
            Matches(TwelveDigitAt, s, all)
      [] pattern = "[A-Za-z\\s]{2,50}" ->
            Matches(LAMBDA t, i : NameAt(t, i, 2), s, all)
      [] pattern = "[A-Za-z\\s]{3,50}" ->
            Matches(LAMBDA t, i : NameAt(t, i, 3), s, all)
      [] pattern = "(\\d{1,2}[/-]\\d{1,2}[/-]\\d{4}|\\d{4}[/-]\\d{1,2}[/-]\\d{1,2})" ->
            Matches(LAMBDA t, i : IF DateAt(t, i, 1, 2) # 0 THEN DateAt(t, i, 1, 2)
                                  ELSE YearFirstDateAt(t, i), s, all)
      [] pattern = "\\d{1,2}[/-]\\d{1,2}[/-]\\d{4}" ->
            Matches(LAMBDA t, i : DateAt(t, i, 1, 2), s, all)
      [] pattern = "\\d{2}[/-]\\d{2}[/-]\\d{4}" ->
            Matches(LAMBDA t, i : DateAt(t, i, 2, 2), s, all)
      [] pattern = "(address|s/o|d/o|w/o)" ->
            Matches(LAMBDA t, i : AltAt(<<"address", "s/o", "d/o", "w/o">>, t, i, 1), s, all)
      [] pattern = "(address)" ->
            Matches(LAMBDA t, i : AltAt(<<"address">>, t, i, 1), s, all)
      [] pattern = "(SC|ST|OBC|VJNT|SBC|scheduled caste|scheduled tribe|other backward class)" ->
            Matches(LAMBDA t, i :
                        AltAt(<<"sc", "st", "obc", "vjnt", "sbc", "scheduled caste",
                                "scheduled tribe", "other backward class">>, t, i, 1),
                    s, all)
      [] pattern = "(OBC|other backward class|backward class)" ->
            Matches(LAMBDA t, i :
                        AltAt(<<"obc", "other backward class", "backward class">>, t, i, 1),
                    s, all)
      [] pattern = "(mumbai|pune|nagpur|nashik|aurangabad|kolhapur|satara|sangli|solapur|ahmednagar)" ->
            Matches(LAMBDA t, i : AltAt(Districts, t, i, 1), s, all)
      [] pattern = "(cert|certificate).*?no\\.?\\s*:?\\s*([A-Z0-9/-]+)" ->
            Matches(LAMBDA t, i : PrefixedNumberAt(<<"cert", "certificate">>, t, i, 1), s, all)
      [] pattern = "(reg|registration).*?no\\.?\\s*:?\\s*([A-Z0-9/-]+)" ->
            Matches(LAMBDA t, i : PrefixedNumberAt(<<"reg", "registration">>, t, i, 1), s, all)
      [] pattern = "(?:rs\\.?|rupees)\\s*(\\d{1,3}(?:,\\d{3})*)" ->
            Matches(AnnualIncomeAt, s, all)
      [] pattern = "valid.*?(\\d{2}[/-]\\d{2}[/-]\\d{4})" ->
            Matches(ValidityDateAt, s, all)
      [] pattern = "(born at|birth place)" ->
            Matches(LAMBDA t, i : AltAt(<<"born at", "birth place">>, t, i, 1), s, all)
      [] pattern = "(father|mother)" ->
            Matches(LAMBDA t, i : AltAt(<<"father", "mother">>, t, i, 1), s, all)
      [] pattern = "[A-Za-z]{3,}" ->
            Matches(LAMBDA t, i : IF RunEnd(t, i, Letters) - i >= 3
                                  THEN RunEnd(t, i, Letters) ELSE 0, s, all)
      [] pattern = "[A-Z]{2,}" ->
            Matches(LAMBDA t, i : IF RunEnd(t, i, UpperLetters) - i >= 2
                                  THEN RunEnd(t, i, UpperLetters) ELSE 0, s, all)
      [] pattern = "[^\\w\\s]" ->
            Matches(LAMBDA t, i : IF SubSeq(t, i, i) \notin (WordChars \cup Whitespace)
                                  THEN i + 1 ELSE 0, s, all)
      [] pattern = "\\d" ->
            Matches(LAMBDA t, i : IF DigitsAt(t, i, 1) THEN i + 1 ELSE 0, s, all)

\* re.search(pattern, s) is not None
re_search(pattern, s) == MatchPattern(pattern, s, FALSE) = 1

\* len(list(re.finditer(pattern, s)))
re_finditer_count(pattern, s) == MatchPattern(pattern, s, TRUE)

----------------------------------------------------------------------------
(* The pattern registry and the fraud indicators (__init__)                *)

\* the registered type ids, in the order of the registry
DocTypes ==
    <<"aadhaar", "caste_certificate", "income_certificate",
      "domicile_certificate", "birth_certificate", "non_creamy_layer">>

NameLoose == "[A-Za-z\\s]{2,50}"
Name == "[A-Za-z\\s]{3,50}"
CertificateNumber == "(cert|certificate).*?no\\.?\\s*:?\\s*([A-Z0-9/-]+)"
DistrictPattern ==
    "(mumbai|pune|nagpur|nashik|aurangabad|kolhapur|satara|sangli|solapur|ahmednagar)"
AnnualIncome == "(?:rs\\.?|rupees)\\s*(\\d{1,3}(?:,\\d{3})*)"
ValidityDate == "valid.*?(\\d{2}[/-]\\d{2}[/-]\\d{4})"

document_patterns ==
    [t \in {DocTypes[i] : i \in 1..Len(DocTypes)} |->
      CASE t = "aadhaar" ->
            [keywords |-> <<"aadhaar", "aadhar", "unique identification",
                            "government of india", "uidai", "uid", "enrollment",
                            "enrolment", "unique identity", "identification authority">>,
             required_fields |-> <<"12_digit_number", "name", "dob">>,
             patterns |->
                <<<<"12_digit_number", "\\b\\d{4}[\\s\\-]*\\d{4}[\\s\\-]*\\d{4}\\b">>,
                  <<"name", NameLoose>>,
                  <<"dob", "(\\d{1,2}[/-]\\d{1,2}[/-]\\d{4}|\\d{4}[/-]\\d{1,2}[/-]\\d{1,2})">>,
                  <<"address", "(address|s/o|d/o|w/o)">> >>,
             security_features |-> <<"hologram", "qr code", "secure paper", "watermark">>]
        [] t = "caste_certificate" ->
            [keywords |-> <<"caste certificate", "government of maharashtra",
                            "tahsildar", "collector">>,
             required_fields |-> <<"name", "caste", "district", "signature_stamp",
                                   "certificate_number">>,
             patterns |->
                <<<<"name", Name>>,
                  <<"caste", "(SC|ST|OBC|VJNT|SBC|scheduled caste|scheduled tribe|other backward class)">>,
                  <<"district", DistrictPattern>>,
                  <<"certificate_number", CertificateNumber>> >>,
             security_features |-> <<"government seal", "official signature", "letterhead">>]
        [] t = "income_certificate" ->
            [keywords |-> <<"income certificate", "annual income", "tahsildar",
                            "revenue department">>,
             required_fields |-> <<"name", "annual_income", "issuing_authority",
                                   "certificate_number", "validity_date">>,
             patterns |->
                <<<<"name", Name>>,
                  <<"annual_income", AnnualIncome>>,
                  <<"certificate_number", CertificateNumber>>,
                  <<"validity_date", ValidityDate>> >>,
             security_features |-> <<"government seal", "official signature", "revenue stamp">>]
        [] t = "domicile_certificate" ->
            [keywords |-> <<"domicile certificate", "residence certificate",
                            "maharashtra domicile">>,
             required_fields |-> <<"name", "address", "district", "issuing_authority",
                                   "certificate_number">>,
             patterns |->
                <<<<"name", Name>>,
                  <<"address", "(address)">>,
                  <<"district", DistrictPattern>>,
                  <<"certificate_number", CertificateNumber>> >>,
             security_features |-> <<"government seal", "official signature", "letterhead">>]
        [] t = "birth_certificate" ->
            [keywords |-> <<"birth certificate", "registrar", "birth registration">>,
             required_fields |-> <<"name", "dob", "place_of_birth", "parents_name",
                                   "registration_number">>,
             patterns |->
                <<<<"name", Name>>,
                  <<"dob", "\\d{2}[/-]\\d{2}[/-]\\d{4}">>,
                  <<"place_of_birth", "(born at|birth place)">>,
                  <<"parents_name", "(father|mother)">>,
                  <<"registration_number", "(reg|registration).*?no\\.?\\s*:?\\s*([A-Z0-9/-]+)">> >>,
             security_features |-> <<"registrar seal", "official signature", "security paper">>]
        [] t = "non_creamy_layer" ->
            [keywords |-> <<"non creamy layer", "non-creamy layer", "obc certificate",
                            "creamy layer">>,
             required_fields |-> <<"name", "caste", "annual_income", "issuing_authority",
                                   "validity_date">>,
             patterns |->
                <<<<"name", Name>>,
                  <<"caste", "(OBC|other backward class|backward class)">>,
                  <<"annual_income", AnnualIncome>>,
                  <<"validity_date", ValidityDate>> >>,
             security_features |-> <<"government seal", "official signature", "letterhead">>]]

\* the list without its repeated entry: the fault that C19 excludes
fraud_indicators_deduplicated ==
    <<"photocopy", "xerox", "duplicate", "sample", "specimen", "draft",
      "watermark missing", "poor quality", "blurred text", "copy",
      "not original", "scanned copy", "printout">>

\* the list keeps its repeated entry: "duplicate" is listed twice
fraud_indicators ==
    <<"photocopy", "xerox", "duplicate", "sample", "specimen", "draft",
      "watermark missing", "poor quality", "blurred text", "copy", "duplicate",
      "not original", "scanned copy", "printout">>

\* the value None
None == "None"

----------------------------------------------------------------------------
(* Type classification                                                     *)

\* no character of an ASCII text lies in the Devanagari range U+0900..U+097F
Devanagari == {}

\* advanced_text_analysis: the signals detect_document_type reads
advanced_text_analysis(txt) ==
    LET text_lower == Lower(txt)
    IN  [text_length |-> Len(txt),
         has_dates |-> re_search("\\d{1,2}[/-]\\d{1,2}[/-]\\d{4}", txt),
         has_government_terms |->
            \E term \in {"government", "authority"} : Contains(text_lower, term),
         language_mix |-> \E i \in 1..Len(txt) : SubSeq(txt, i, i) \in Devanagari]

\* 3 for a keyword found whole in the normalized text, 1 when only one of
\* its words longer than 2 characters is found, summed over the keywords
RECURSIVE KeywordScore(_, _, _)
KeywordScore(keywords, text_normalized, i) ==
    IF i > Len(keywords) THEN 0
    ELSE LET keyword_lower == Lower(keywords[i])
             words == Split(keyword_lower)
         IN  (IF Contains(text_normalized, keyword_lower) THEN 3
              ELSE IF \E k \in 1..Len(words) :
                         Len(words[k]) > 2 /\ Contains(text_normalized, words[k])
                   THEN 1
                   ELSE 0)
             + KeywordScore(keywords, text_normalized, i + 1)

\* 2 for every field pattern found in the text, and 3 more for the 12-digit
\* number of an aadhaar
RECURSIVE PatternScore(_, _, _, _)
PatternScore(doc_type, patterns, text_lower, i) ==
    IF i > Len(patterns) THEN 0
    ELSE (IF re_search(patterns[i][2], text_lower)
          THEN 2 + (IF patterns[i][1] = "12_digit_number" /\ doc_type = "aadhaar"
                    THEN 3 ELSE 0)
          ELSE 0)
         + PatternScore(doc_type, patterns, text_lower, i + 1)

aadhaar_context == <<"male", "female", "address", "dob", "year of birth">>
caste_context == <<"caste", "sc", "st", "obc", "backward", "scheduled", "tribe">>
income_context == <<"income", "salary", "annual", "rupees", "rs">>

\* the context score without the 5 points for the 12-digit number
ContextScoreNoBonus(doc_type, txt, text_lower) ==
    CASE doc_type = "aadhaar" -> 2 * CountTerms(aadhaar_context, text_lower)
      [] doc_type = "caste_certificate" -> 2 * CountTerms(caste_context, text_lower)
      [] doc_type = "income_certificate" -> 2 * CountTerms(income_context, text_lower)
      [] OTHER -> 0

ContextScore(doc_type, txt, text_lower) ==
    CASE doc_type = "aadhaar" ->
            2 * CountTerms(aadhaar_context, text_lower)
            + (IF re_search("\\b\\d{4}[\\s\\-]*\\d{4}[\\s\\-]*\\d{4}\\b", txt) THEN 5 ELSE 0)
      [] doc_type = "caste_certificate" -> 2 * CountTerms(caste_context, text_lower)
      [] doc_type = "income_certificate" -> 2 * CountTerms(income_context, text_lower)
      [] OTHER -> 0

StructureScore(doc_type, text_analysis) ==
    (IF text_analysis.has_government_terms THEN 2 ELSE 0)
    + (IF text_analysis.has_dates THEN 1 ELSE 0)
    + (IF text_analysis.language_mix
          /\ doc_type \in {"caste_certificate", "income_certificate", "domicile_certificate"}
       THEN 1 ELSE 0)

\* The totals are binary floating-point numbers. A total x is held exactly as
\* the pair of integers tenths and err with x = tenths/10 + err * 2^-56 / 5:
\* tenths is the total in exact arithmetic and err the rounding error that the
\* float operations have accumulated.
Float(tenths, err) == [tenths |-> tenths, err |-> err]

\* the float literals 0.4, 0.3, 0.2, 0.1: the doubles nearest to the decimals
Weights ==
    [keywords |-> Float(4, 8), patterns |-> Float(3, -4),
     context |-> Float(2, 4), structure |-> Float(1, 2)]

\* 2^n
RECURSIVE Pow2(_)
Pow2(n) == IF n = 0 THEN 1 ELSE 2 * Pow2(n - 1)

\* 2^n modulo 5
Pow2Mod5(n) == <<1, 2, 4, 3>>[(n % 4) + 1]

\* the binary exponent e of the value tenths/10 + err * 2^-56 / 5, which lies
\* in [2^e, 2^(e+1))
Exponent(tenths, err) ==
    LET e == CASE tenths = 1 -> -4
               [] tenths = 2 -> -3
               [] tenths \in 3..4 -> -2
               [] tenths \in 5..9 -> -1
               [] tenths \in 10..19 -> 0
               [] tenths \in 20..39 -> 1
               [] tenths \in 40..79 -> 2
               [] tenths \in 80..159 -> 3
               [] tenths \in 160..319 -> 4
    IN  IF tenths \in {5, 10, 20, 40, 80, 160} /\ err < 0 THEN e - 1 ELSE e

\* the double nearest to the exact value tenths/10 + err * 2^-56 / 5, ties to
\* even: doubles of exponent e are the multiples of 2^(e-52), which is
\* quantum == 5 * 2^(e+4) in units of 2^-56 / 5
RoundToDouble(tenths, err) ==
    IF tenths = 0 THEN Float(0, 0)
    ELSE LET j == Exponent(tenths, err) + 4
             quantum == 5 * Pow2(j)
             \* the exact value modulo 2 * quantum
             w == (Pow2(j + 1) * ((tenths * Pow2Mod5(54 - j)) % 5) + err) % (2 * quantum)
             r == w % quantum
             odd == w >= quantum
         IN  IF 2 * r < quantum \/ (2 * r = quantum /\ ~odd)
             THEN Float(tenths, err - r)
             ELSE Float(tenths, err - r + quantum)

\* n * weight, for an integer n
FloatTimes(n, weight) == RoundToDouble(n * weight.tenths, n * weight.err)

\* x + y
FloatPlus(x, y) == RoundToDouble(x.tenths + y.tenths, x.err + y.err)

\* x < y
FloatLess(x, y) == x.tenths < y.tenths \/ (x.tenths = y.tenths /\ x.err < y.err)

\* the weighted total of a score breakdown
TotalScore(score_breakdown) ==
    FloatPlus(FloatPlus(FloatPlus(FloatTimes(score_breakdown.keywords, Weights.keywords),
                                  FloatTimes(score_breakdown.patterns, Weights.patterns)),
                        FloatTimes(score_breakdown.context, Weights.context)),
              FloatTimes(score_breakdown.structure, Weights.structure))

\* the score breakdown of the type doc_type
ScoreBreakdown(doc_type, txt, text_lower, text_normalized, text_analysis) ==
    [keywords |-> KeywordScore(document_patterns[doc_type].keywords, text_normalized, 1),
     patterns |-> PatternScore(doc_type, document_patterns[doc_type].patterns,
                               text_lower, 1),
     context |-> ContextScore(doc_type, txt, text_lower),
     structure |-> StructureScore(doc_type, text_analysis)]

\* detailed_scores[doc_type]
DetailedScore(score_breakdown) ==
    [total |-> TotalScore(score_breakdown), breakdown |-> score_breakdown]

\* the detailed scores of every registered type, in registry order
RECURSIVE DetailedScoresFrom(_, _, _, _, _)
DetailedScoresFrom(txt, text_lower, text_normalized, text_analysis, i) ==
    IF i > Len(DocTypes) THEN <<>>
    ELSE <<DetailedScore(ScoreBreakdown(DocTypes[i], txt, text_lower,
                                        text_normalized, text_analysis))>>
         \o DetailedScoresFrom(txt, text_lower, text_normalized, text_analysis, i + 1)

DetailedScores(txt) ==
    LET text_lower == Lower(txt)
        text_normalized == JoinSplit(text_lower)
        text_analysis == advanced_text_analysis(txt)
    IN  DetailedScoresFrom(txt, text_lower, text_normalized, text_analysis, 1)

\* the minimum total, 2.0
MinimumThreshold == Float(20, 0)

\* max(scores, key=scores.get): the first type, in registry order, whose
\* total no other type exceeds
BestType(detailed_scores) ==
    CHOOSE i \in 1..Len(detailed_scores) :
        /\ \A j \in 1..Len(detailed_scores) :
                ~FloatLess(detailed_scores[i].total, detailed_scores[j].total)
        /\ \A j \in 1..(i - 1) :
                FloatLess(detailed_scores[j].total, detailed_scores[i].total)

\* the detected type for a table of scores, None below the threshold
DetectFromScores(detailed_scores) ==
    IF ~FloatLess(detailed_scores[BestType(detailed_scores)].total, MinimumThreshold)
    THEN DocTypes[BestType(detailed_scores)]
    ELSE None

\* the detailed scores and the type returned for them
DetectionResult(detailed_scores) ==
    [detailed_scores |-> detailed_scores,
     document_type |-> DetectFromScores(detailed_scores)]

detect_document_type(txt) == DetectionResult(DetailedScores(txt)).document_type

----------------------------------------------------------------------------
(* Validation                                                              *)

\* validity scores are kept in units of 1/ScoreScale; every quotient the
\* weighted sum takes for a registered type is a whole number of units
ScoreScale == 60 * 100

\* check_security_features: the expected security features found in the
\* text, and one warning for every entry of fraud_indicators found in it
check_security_features(txt, document_type) ==
    IF document_type \notin DOMAIN document_patterns
    THEN [security_score |-> 0, warnings |-> <<"Unknown document type">>]
    ELSE LET security_features == document_patterns[document_type].security_features
             text_lower == Lower(txt)
             found_security == MatchedTerms(security_features, text_lower, 1)
         IN  [security_score |->
                 IF Len(security_features) > 0
                 THEN (ScoreScale * Len(found_security)) \div Len(security_features)
                 ELSE ScoreScale,
              found_security |-> found_security,
              warnings |->
                 LET found == MatchedTerms(fraud_indicators, text_lower, 1)
                 IN  [i \in 1..Len(found) |-> "Potential fraud indicator: " \o found[i]]]

govt_terms == <<"government", "authority", "official", "seal", "signature">>

\* validate_document_integrity with a quality check that takes the
\* separators of a date for no special characters: the fault that C28 excludes
validate_document_integrity_separators(txt, document_type) ==
    LET text_lower == Lower(txt)
    IN  [text_quality |->
            (IF Len(txt) > 100 THEN 20 ELSE 0)
            + (IF Len(txt) > 300 THEN 20 ELSE 0)
            + (IF re_search("[A-Za-z]{3,}", txt) THEN 20 ELSE 0)
            + (IF \A i \in 1..Len(txt) :
                     CharAt(txt, i) \in WordChars \cup Whitespace \cup {"/", "-"}
               THEN 20 ELSE 0),
         structure_score |->
            (IF re_search("\\d", txt) THEN 10 ELSE 0)
            + (IF re_search("[A-Z]{2,}", txt) THEN 10 ELSE 0)
            + (IF re_search("\\d{1,2}[/-]\\d{1,2}[/-]\\d{4}", txt) THEN 15 ELSE 0),
         authenticity_markers |-> MatchedTerms(govt_terms, text_lower, 1),
         red_flags |-> MatchedTerms(fraud_indicators, text_lower, 1)]

\* validate_document_integrity
validate_document_integrity(txt, document_type) ==
    LET text_lower == Lower(txt)
    IN  [text_quality |->
            (IF Len(txt) > 100 THEN 20 ELSE 0)
            + (IF Len(txt) > 300 THEN 20 ELSE 0)
            + (IF re_search("[A-Za-z]{3,}", txt) THEN 20 ELSE 0)
            + (IF ~re_search("[^\\w\\s]", txt) THEN 20 ELSE 0),
         structure_score |->
            (IF re_search("\\d", txt) THEN 10 ELSE 0)
            + (IF re_search("[A-Z]{2,}", txt) THEN 10 ELSE 0)
            + (IF re_search("\\d{1,2}[/-]\\d{1,2}[/-]\\d{4}", txt) THEN 15 ELSE 0),
         authenticity_markers |-> MatchedTerms(govt_terms, text_lower, 1),
         red_flags |-> MatchedTerms(fraud_indicators, text_lower, 1)]

signature_terms == <<"signature", "stamp", "seal", "signed", "authorized">>
authority_terms == <<"tahsildar", "collector", "registrar", "officer", "authority">>
address_terms == <<"address", "residence", "village", "city", "district">>

\* patterns[field], None when the field has no pattern
PatternOf(patterns, field) ==
    IF \E k \in 1..Len(patterns) : patterns[k][1] = field
    THEN patterns[CHOOSE k \in 1..Len(patterns) : patterns[k][1] = field][2]
    ELSE None

\* the confidence without its cap at 100: the fault that C20 excludes
FieldResultUncapped(matches, weight, base) ==
    [found |-> matches >= 1,
     confidence |-> IF matches >= 1 THEN matches * weight + base ELSE 0]

\* a field is found if it has a match; its confidence is
\* min(100, matches * weight + base) when found and 0 otherwise
FieldResult(matches, weight, base) ==
    [found |-> matches >= 1,
     confidence |-> IF matches >= 1 THEN Min(100, matches * weight + base) ELSE 0]

\* the field loop without the heuristic fields, which fall to the default:
\* the fault that C29 excludes
FieldCheckByDefault(field, patterns, text_lower) ==
    IF PatternOf(patterns, field) # None
    THEN FieldResult(re_finditer_count(PatternOf(patterns, field), text_lower), 30, 40)
    ELSE [found |-> TRUE, confidence |-> 50]

\* one turn of the field loop: whether the field is found, and how confidently
FieldCheck(field, patterns, text_lower) ==
    IF PatternOf(patterns, field) # None
    THEN FieldResult(re_finditer_count(PatternOf(patterns, field), text_lower), 30, 40)
    ELSE CASE field = "signature_stamp" ->
                FieldResult(CountTerms(signature_terms, text_lower), 25, 25)
           [] field = "issuing_authority" ->
                FieldResult(CountTerms(authority_terms, text_lower), 30, 30)
           [] field = "address" ->
                FieldResult(CountTerms(address_terms, text_lower), 20, 40)
           [] OTHER -> [found |-> TRUE, confidence |-> 50]

\* the field loop over required_fields, from the i-th field on
RECURSIVE FieldChecks(_, _, _, _)
FieldChecks(required_fields, patterns, text_lower, i) ==
    IF i > Len(required_fields) THEN <<>>
    ELSE <<FieldCheck(required_fields[i], patterns, text_lower)>>
         \o FieldChecks(required_fields, patterns, text_lower, i + 1)

\* the fields whose check has found = wanted, in the order of required_fields
RECURSIVE SelectFields(_, _, _, _)
SelectFields(required_fields, checks, wanted, i) ==
    IF i > Len(required_fields) THEN <<>>
    ELSE (IF checks[i].found = wanted THEN <<required_fields[i]>> ELSE <<>>)
         \o SelectFields(required_fields, checks, wanted, i + 1)

\* len(found_fields) / len(required_fields), in units of 1/ScoreScale
FieldRatio(found_fields, required_fields) ==
    IF Len(required_fields) > 0
    THEN (ScoreScale * Len(found_fields)) \div Len(required_fields)
    ELSE 0

\* the mean over the found fields only: the fault that C18 excludes
AvgFoundFieldConfidence(field_confidence) ==
    LET found == {i \in 1..Len(field_confidence) : field_confidence[i] > 0}
    IN  IF found # {}
        THEN (ScoreScale * SumSeq(field_confidence, 1)) \div (100 * Cardinality(found))
        ELSE 0

\* sum(field_confidence.values()) / len(field_confidence), as a fraction of
\* 100 in units of 1/ScoreScale
AvgFieldConfidence(field_confidence) ==
    IF Len(field_confidence) > 0
    THEN (ScoreScale * SumSeq(field_confidence, 1)) \div (100 * Len(field_confidence))
    ELSE 0

\* (text_quality + structure_score) / 100, in units of 1/ScoreScale
IntegrityScore(integrity_check) ==
    (ScoreScale * (integrity_check.text_quality + integrity_check.structure_score)) \div 100

\* field_ratio * 0.3 + (avg_field_confidence / 100) * 0.25 + security_ratio * 0.25
\* + integrity_score * 0.2
WeightedValidity(field_ratio, avg_field_confidence, security_ratio, integrity_score) ==
    (3 * field_ratio) \div 10 + avg_field_confidence \div 4 + security_ratio \div 4
    + integrity_score \div 5

\* the penalty without the floor at 0: the fault that C1 excludes
ApplyPenaltyUnfloored(validity_score, red_flags) ==
    validity_score - Len(red_flags) * (ScoreScale \div 10)

\* max(0, validity_score - 0.1 * len(red_flags))
ApplyPenalty(validity_score, red_flags) ==
    Max(0, validity_score - Len(red_flags) * (ScoreScale \div 10))

\* validity decided by the score alone: the fault that C3 excludes
IsValidByScore(validity_score, red_flags) ==
    validity_score >= (6 * ScoreScale) \div 10

\* validity_score >= 0.6 and len(red_flags) == 0
IsValid(validity_score, red_flags) ==
    validity_score >= (6 * ScoreScale) \div 10 /\ Len(red_flags) = 0

\* the report of validate_document for the outcome of the field loop, the
\* security check and the integrity check
ValidationResult(required_fields, checks, security_check, integrity_check) ==
    LET found_fields == SelectFields(required_fields, checks, TRUE, 1)
        missing_fields == SelectFields(required_fields, checks, FALSE, 1)
        field_confidence == [i \in 1..Len(checks) |-> checks[i].confidence]
        field_ratio == FieldRatio(found_fields, required_fields)
        avg_field_confidence == AvgFieldConfidence(field_confidence)
        validity_score ==
            ApplyPenalty(
                WeightedValidity(field_ratio, avg_field_confidence,
                                 security_check.security_score,
                                 IntegrityScore(integrity_check)),
                integrity_check.red_flags)
    IN  [valid |-> IsValid(validity_score, integrity_check.red_flags),
         validity_score |-> validity_score,
         missing_fields |-> missing_fields,
         found_fields |-> found_fields,
         field_confidence |-> field_confidence,
         field_ratio |-> field_ratio,
         avg_field_confidence |-> avg_field_confidence,
         security_score |-> security_check.security_score,
         security_warnings |-> security_check.warnings,
         found_security |-> security_check.found_security,
         integrity_check |-> integrity_check,
         authenticity_markers |-> integrity_check.authenticity_markers,
         red_flags |-> integrity_check.red_flags]

validate_document(txt, document_type) ==
    IF document_type \notin DOMAIN document_patterns
    THEN [valid |-> FALSE, missing_fields |-> <<"Unknown document type">>]
    ELSE ValidationResult(document_patterns[document_type].required_fields,
                          FieldChecks(document_patterns[document_type].required_fields,
                                      document_patterns[document_type].patterns,
                                      Lower(txt), 1),
                          check_security_features(txt, document_type),
                          validate_document_integrity(txt, document_type))

----------------------------------------------------------------------------
(* Expiry dates                                                            *)

DigitValue(c) ==
    CASE c = "0" -> 0 [] c = "1" -> 1 [] c = "2" -> 2 [] c = "3" -> 3 [] c = "4" -> 4
      [] c = "5" -> 5 [] c = "6" -> 6 [] c = "7" -> 7 [] c = "8" -> 8 [] c = "9" -> 9

\* int(s) for a string of digits
RECURSIVE ToNumber(_, _)
ToNumber(s, n) ==
    IF n = 0 THEN 0 ELSE 10 * ToNumber(s, n - 1) + DigitValue(SubSeq(s, n, n))

IsLeapYear(y) == (y % 4 = 0 /\ y % 100 # 0) \/ y % 400 = 0

DaysInMonth(m, y) ==
    CASE m \in {1, 3, 5, 7, 8, 10, 12} -> 31
      [] m \in {4, 6, 9, 11} -> 30
      [] m = 2 -> IF IsLeapYear(y) THEN 29 ELSE 28

\* datetime accepts the date
IsDate(d, m, y) ==
    /\ y >= 1 /\ y <= 9999
    /\ m >= 1 /\ m <= 12
    /\ d >= 1 /\ d <= DaysInMonth(m, y)

\* the number of days from 01/01/0001 to the date (date.toordinal() - 1)
RECURSIVE DaysBeforeMonth(_, _)
DaysBeforeMonth(m, y) ==
    IF m = 1 THEN 0 ELSE DaysInMonth(m - 1, y) + DaysBeforeMonth(m - 1, y)

DayNumber(d, m, y) ==
    365 * (y - 1) + (y - 1) \div 4 - (y - 1) \div 100 + (y - 1) \div 400
    + DaysBeforeMonth(m, y) + (d - 1)

\* the formats tried, in order: %d/%m/%Y, %d-%m-%Y, %m/%d/%Y, %m-%d-%Y
DateFormats ==
    <<[sep |-> "/", day_first |-> TRUE], [sep |-> "-", day_first |-> TRUE],
      [sep |-> "/", day_first |-> FALSE], [sep |-> "-", day_first |-> FALSE]>>

\* the day, the month and the year that a format reads in a dd?dd?dddd token
DateFields(date_str, fmt) ==
    LET a == ToNumber(SubSeq(date_str, 1, 2), 2)
        b == ToNumber(SubSeq(date_str, 4, 5), 2)
    IN  [d |-> IF fmt.day_first THEN a ELSE b,
         m |-> IF fmt.day_first THEN b ELSE a,
         y |-> ToNumber(SubSeq(date_str, 7, 10), 4)]

\* datetime.strptime(date_str, fmt) raises no ValueError
Parses(date_str, fmt) ==
    /\ SubSeq(date_str, 3, 3) = fmt.sep
    /\ SubSeq(date_str, 6, 6) = fmt.sep
    /\ IsDate(DateFields(date_str, fmt).d, DateFields(date_str, fmt).m,
              DateFields(date_str, fmt).y)

\* datetime.strptime(date_str, fmt), as a day number
Strptime(date_str, fmt) ==
    DayNumber(DateFields(date_str, fmt).d, DateFields(date_str, fmt).m,
              DateFields(date_str, fmt).y)

\* the first format, in order, under which date_str parses; 0 if there is none
FirstFormat(date_str) ==
    IF \E k \in 1..Len(DateFormats) : Parses(date_str, DateFormats[k])
    THEN CHOOSE k \in 1..Len(DateFormats) :
            /\ Parses(date_str, DateFormats[k])
            /\ \A j \in 1..(k - 1) : ~Parses(date_str, DateFormats[j])
    ELSE 0

\* keyword.*?(\d{2}[/-]\d{2}[/-]\d{4}) from position i, the keyword being
\* found at the first position after which a date follows on the line
KeywordDateAt(keyword, s, i) ==
    LET stops == {j \in LazyStops(s, i) :
                    /\ AltAt(<<keyword>>, s, j, 1) # 0
                    /\ LazyDateAt(s, j + Len(keyword)) # 0}
    IN  IF stops = {} THEN 0
        ELSE LazyDateAt(s, (CHOOSE j \in stops : \A k \in stops : j <= k) + Len(keyword))

\* the validity patterns, in order, as a first and a second keyword:
\* valid.*?until.*?(date), expires.*?on.*?(date), validity.*?(date),
\* valid.*?upto.*?(date)
validity_patterns ==
    <<<<"valid", "until">>, <<"expires", "on">>, <<"validity", "">>, <<"valid", "upto">> >>

\* the match of a validity pattern at position i
ValidityPatternAt(pattern, s, i) ==
    LET p == AltAt(<<pattern[1]>>, s, i, 1)
    IN  IF p = 0 THEN 0
        ELSE IF pattern[2] = "" THEN LazyDateAt(s, p)
        ELSE KeywordDateAt(pattern[2], s, p)

\* the date token that ends before position end, None for no match
DateBefore(s, end) == IF end = 0 THEN None ELSE SubSeq(s, end - 10, end - 1)

\* the date token of the match of a validity pattern at start, None if start
\* is beyond the text
CapturedAt(pattern, s, start) ==
    DateBefore(s, IF start > Len(s) THEN 0 ELSE ValidityPatternAt(pattern, s, start))

\* match.group(1) of re.search(pattern, text): the date token of the leftmost
\* match, None if the pattern matches nowhere
CapturedDate(pattern, s) ==
    CapturedAt(pattern, s,
               FirstMatch(LAMBDA t, i : ValidityPatternAt(pattern, t, i), s, 1))

\* the captured dates of the validity patterns, in order
RECURSIVE CapturedDates(_, _)
CapturedDates(text_lower, k) ==
    IF k > Len(validity_patterns) THEN <<>>
    ELSE <<CapturedDate(validity_patterns[k], text_lower)>>
         \o CapturedDates(text_lower, k + 1)

\* the first captured date that parses: the fault that C21 excludes
FirstParseableCaptured(captured) ==
    IF \A k \in 1..Len(captured) : captured[k] = None \/ FirstFormat(captured[k]) = 0
    THEN None
    ELSE captured[CHOOSE k \in 1..Len(captured) :
                    /\ captured[k] # None /\ FirstFormat(captured[k]) # 0
                    /\ \A j \in 1..(k - 1) :
                          captured[j] = None \/ FirstFormat(captured[j]) = 0]

\* the captured date of the first pattern that matched, None if none matched
FirstCaptured(captured) ==
    IF \A k \in 1..Len(captured) : captured[k] = None THEN None
    ELSE captured[CHOOSE k \in 1..Len(captured) :
                    /\ captured[k] # None
                    /\ \A j \in 1..(k - 1) : captured[j] = None]

\* the days between the dates, the time of day left out: the fault that C22
\* excludes
DaysUntilByDate(expiry_day, now) == expiry_day - now.day

\* the current time: a day number and whether the time of day is past midnight
\* (expiry_date - today).days
DaysUntil(expiry_day, now) ==
    expiry_day - now.day - (IF now.past_midnight THEN 1 ELSE 0)

\* the result for the captured date of the first pattern that matched
ExpiryInfo(date_str, now) ==
    IF date_str = None \/ FirstFormat(date_str) = 0
    THEN [has_expiry |-> FALSE, expired |-> FALSE, expires_soon |-> FALSE,
          expiry_date |-> None]
    ELSE LET days_until_expiry ==
                DaysUntil(Strptime(date_str, DateFormats[FirstFormat(date_str)]), now)
         IN  [has_expiry |-> TRUE,
              expired |-> days_until_expiry < 0,
              expires_soon |-> days_until_expiry >= 0 /\ days_until_expiry < 30,
              expiry_date |-> date_str]

check_expiry_date(txt, now) ==
    ExpiryInfo(FirstCaptured(CapturedDates(Lower(txt), 1)), now)

----------------------------------------------------------------------------
(* Fallback classification                                                 *)

\* the number of the four aadhaar indicators found in the text: a 12-digit
\* number, a gender term, a date-of-birth term, an address term
aadhaar_score(txt) ==
    LET text_lower == Lower(txt)
    IN  (IF re_search("\\d{4}[\\s\\-]*\\d{4}[\\s\\-]*\\d{4}", txt) THEN 1 ELSE 0)
        + (IF \E term \in {"male", "female"} : Contains(text_lower, term) THEN 1 ELSE 0)
        + (IF \E term \in {"dob", "date of birth"} : Contains(text_lower, term)
           THEN 1 ELSE 0)
        + (IF Contains(text_lower, "address") THEN 1 ELSE 0)

\* the certificate branch taken before the aadhaar indicators are counted:
\* the fault that C9 excludes
fallback_detection_certificate_first(txt) ==
    LET text_lower == Lower(txt)
    IN  IF Contains(text_lower, "certificate") /\ Contains(text_lower, "income")
        THEN "income_certificate"
        ELSE IF Contains(text_lower, "certificate") /\ Contains(text_lower, "caste")
        THEN "caste_certificate"
        ELSE IF Contains(text_lower, "certificate") /\ Contains(text_lower, "domicile")
        THEN "domicile_certificate"
        ELSE IF Contains(text_lower, "certificate") /\ Contains(text_lower, "birth")
        THEN "birth_certificate"
        ELSE IF aadhaar_score(txt) >= 2 THEN "aadhaar"
        ELSE None

fallback_detection(txt) ==
    LET text_lower == Lower(txt)
    IN  IF aadhaar_score(txt) >= 2 THEN "aadhaar"
        ELSE IF Contains(text_lower, "certificate")
        THEN IF Contains(text_lower, "income") THEN "income_certificate"
             ELSE IF Contains(text_lower, "caste") THEN "caste_certificate"
             ELSE IF Contains(text_lower, "domicile") THEN "domicile_certificate"
             ELSE IF Contains(text_lower, "birth") THEN "birth_certificate"
             ELSE None
        ELSE None

----------------------------------------------------------------------------
(* The document check                                                      *)

\* the methods that the class DocumentValidityChecker defines
Methods ==
    {"__init__", "preprocess_image", "pil_preprocess", "extract_text_from_pdf",
     "extract_text_from_image", "advanced_text_analysis", "detect_document_type",
     "check_security_features", "extract_structured_data",
     "validate_document_integrity", "validate_document", "check_expiry_date",
     "fallback_detection", "check_document"}

\* the outcomes of a call: a returned value or a raised exception
Returned(value) == [raised |-> FALSE, value |-> value]
Raised(exception) == [raised |-> TRUE, exception |-> exception]

\* self.extract_text(file_path), for a file whose text is txt: the attribute
\* lookup raises AttributeError for a method that the class does not define
CallExtractText(txt) ==
    IF "extract_text" \in Methods
    THEN Returned(txt)
    ELSE Raised("'DocumentValidityChecker' object has no attribute 'extract_text'")

\* separator.join(strings)
RECURSIVE Join(_, _, _)
Join(separator, strings, i) ==
    IF i > Len(strings) THEN ""
    ELSE IF i = Len(strings) THEN strings[i]
    ELSE strings[i] \o separator \o Join(separator, strings, i + 1)

\* n / d rounded to the nearest integer, ties to even
RoundHalfEven(n, d) ==
    LET quotient == n \div d
        twice == 2 * (n % d)
    IN  IF twice < d \/ (twice = d /\ quotient % 2 = 0) THEN quotient ELSE quotient + 1

\* round(x * 100, 1) for x in units of 1/ScoreScale, in tenths
RoundPercent(x) == RoundHalfEven(x * 1000, ScoreScale)

\* the prefixes by which an extraction failure message is recognised
extraction_errors ==
    <<"Error", "OCR not available", "No text could be extracted", "File not found">>

ExtractionFailed(extracted_text) ==
    \E i \in 1..Len(extraction_errors) : StartsWith(extracted_text, extraction_errors[i])

ExtractionErrorReport(extracted_text) ==
    [document_type |-> "error",
     valid |-> FALSE,
     missing_fields |-> <<"Text extraction failed">>,
     suggestion |-> "Text extraction error: " \o extracted_text
                    \o ". Please ensure document is clear and readable.",
     confidence |-> 0,
     error_details |-> extracted_text]

InsufficientTextReport(extracted_text) ==
    [document_type |-> "unknown",
     valid |-> FALSE,
     missing_fields |-> <<"Insufficient text extracted">>,
     suggestion |-> "Very little text was extracted from the document. Please upload a clearer, higher quality image.",
     confidence |-> 0,
     extracted_text_length |-> Len(extracted_text)]

NotRecognizedReport(extracted_text) ==
    [document_type |-> "unknown",
     valid |-> FALSE,
     missing_fields |-> <<"Document type not recognized">>,
     suggestion |-> "Document type could not be identified. Supported documents: Aadhaar Card, Caste Certificate, Income Certificate, Birth Certificate, Domicile Certificate, Non-Creamy Layer Certificate.",
     confidence |-> 0,
     extracted_text_sample |->
        IF Len(extracted_text) > 200
        THEN SubSeq(extracted_text, 1, 200) \o "..."
        ELSE extracted_text]

\* the report of the except clause
ProcessingErrorReport(exception) ==
    [document_type |-> "error",
     valid |-> FALSE,
     missing_fields |-> <<"Processing error: " \o exception>>,
     suggestion |-> "Please try uploading again or contact support.",
     confidence |-> 0]

\* the sentences of the suggestion; each begins with a symbol outside ASCII in
\* the source, which is left out here
Suggestions(validation_result, expiry_info) ==
    IF validation_result.valid
    THEN IF expiry_info.expired THEN <<"Document has expired. Please renew.">>
         ELSE IF expiry_info.expires_soon
         THEN <<"Document expires soon. Consider renewal.">>
         ELSE <<"Document appears to be valid and authentic.">>
    ELSE (IF Len(validation_result.missing_fields) > 0
          THEN <<"Missing required fields: "
                 \o Join(", ", validation_result.missing_fields, 1)>>
          ELSE <<>>)
         \o (IF Len(validation_result.security_warnings) > 0
             THEN <<"Security concerns: "
                    \o Join("; ", validation_result.security_warnings, 1)>>
             ELSE <<>>)
         \o (IF validation_result.security_score < ScoreScale \div 2
             THEN <<"Insufficient security features detected.">>
             ELSE <<>>)

\* the report with a confidence that gives way to the expiry: the fault that
\* C12 excludes
ValidationReportExpiredConfidence(document_type, validation_result, expiry_info) ==
    LET suggestions == Suggestions(validation_result, expiry_info)
    IN  [document_type |-> document_type,
         valid |-> validation_result.valid /\ ~expiry_info.expired,
         confidence |-> IF expiry_info.expired THEN 0
                        ELSE RoundPercent(validation_result.validity_score),
         missing_fields |-> validation_result.missing_fields,
         found_fields |-> validation_result.found_fields,
         field_confidence |-> validation_result.field_confidence,
         avg_field_confidence |-> RoundPercent(validation_result.avg_field_confidence),
         security_score |-> RoundPercent(validation_result.security_score),
         security_warnings |-> validation_result.security_warnings,
         integrity_check |-> validation_result.integrity_check,
         authenticity_markers |-> validation_result.authenticity_markers,
         red_flags |-> validation_result.red_flags,
         expiry_info |-> expiry_info,
         suggestion |-> IF Len(suggestions) > 0 THEN Join(" ", suggestions, 1)
                        ELSE "Document analysis completed."]

\* the report of a document of a detected type
ValidationReport(document_type, validation_result, expiry_info) ==
    LET suggestions == Suggestions(validation_result, expiry_info)
    IN  [document_type |-> document_type,
         valid |-> validation_result.valid /\ ~expiry_info.expired,
         confidence |-> RoundPercent(validation_result.validity_score),
         missing_fields |-> validation_result.missing_fields,
         found_fields |-> validation_result.found_fields,
         field_confidence |-> validation_result.field_confidence,
         avg_field_confidence |-> RoundPercent(validation_result.avg_field_confidence),
         security_score |-> RoundPercent(validation_result.security_score),
         security_warnings |-> validation_result.security_warnings,
         integrity_check |-> validation_result.integrity_check,
         authenticity_markers |-> validation_result.authenticity_markers,
         red_flags |-> validation_result.red_flags,
         expiry_info |-> expiry_info,
         suggestion |-> IF Len(suggestions) > 0 THEN Join(" ", suggestions, 1)
                        ELSE "Document analysis completed."]

\* the type on which check_document settles after the primary detection: the
\* fallback is asked only if the primary detection found nothing
TypeOrFallback(document_type, extracted_text) ==
    IF document_type = None THEN fallback_detection(extracted_text)
    ELSE document_type

\* check_document once the type is settled
CheckDetected(extracted_text, document_type, now) ==
    IF document_type = None THEN NotRecognizedReport(extracted_text)
    ELSE ValidationReport(document_type,
                          validate_document(extracted_text, document_type),
                          check_expiry_date(extracted_text, now))

\* check_document from the extracted text on
CheckExtractedText(extracted_text, now) ==
    IF ExtractionFailed(extracted_text) THEN ExtractionErrorReport(extracted_text)
    ELSE IF Len(Strip(extracted_text)) < 10 THEN InsufficientTextReport(extracted_text)
    ELSE CheckDetected(extracted_text,
                       TypeOrFallback(detect_document_type(extracted_text),
                                      extracted_text),
                       now)

\* check_document without its except clause: the fault that C6 excludes
check_document_uncaught(txt, now) ==
    LET extracted == CallExtractText(txt)
    IN  IF extracted.raised THEN extracted
        ELSE CheckExtractedText(extracted.value, now)

\* check_document(file_path) for a file whose text is txt, at the time now
check_document(txt, now) ==
    LET extracted == CallExtractText(txt)
    IN  IF extracted.raised THEN ProcessingErrorReport(extracted.exception)
        ELSE CheckExtractedText(extracted.value, now)

----------------------------------------------------------------------------
(* Batch check                                                             *)

\* s.replace(old, new) for single characters
RECURSIVE Replace(_, _, _, _)
Replace(s, old, new, i) ==
    IF i > Len(s) THEN ""
    ELSE (IF CharAt(s, i) = old THEN new ELSE CharAt(s, i)) \o Replace(s, old, new, i + 1)

\* the upper-case form of a lower-case letter
ToUpper(c) == CHOOSE u \in UpperLetters : ToLower[u] = c

\* str.title(): a letter is written in upper case after a character that is
\* not a letter and in lower case after a letter
RECURSIVE Title(_, _)
Title(s, i) ==
    IF i > Len(s) THEN ""
    ELSE LET c == CharAt(s, i)
             first == CharAt(s, i - 1) \notin Letters
         IN  (IF c \in LowerLetters /\ first THEN ToUpper(c)
              ELSE IF c \in UpperLetters /\ ~first THEN ToLower[c]
              ELSE c)
             \o Title(s, i + 1)

\* the text of a confidence in an f-string: the reports of a validation hold
\* a float, kept in tenths, the other reports the integer 0
FormatConfidence(report) ==
    IF "expiry_info" \in DOMAIN report
    THEN ToString(report.confidence \div 10) \o "." \o ToString(report.confidence % 10)
    ELSE ToString(report.confidence)

\* the key that the subscriptions of the loop body miss first in report,
\* None if they miss none
MissingKey(report) ==
    IF "document_type" \notin DOMAIN report THEN "document_type"
    ELSE IF "valid" \notin DOMAIN report THEN "valid"
    ELSE None

\* the entry of document i, whose check returned report; the status begins
\* with a symbol outside ASCII in the source, which is left out here
BatchEntry(i, report) ==
    IF MissingKey(report) # None
    THEN "**Document " \o ToString(i) \o ":** Error - '" \o MissingKey(report) \o "'"
    ELSE "**Document " \o ToString(i) \o ":** "
         \o Title(Replace(report.document_type, "_", " ", 1), 1) \o " - "
         \o (IF report.valid THEN "Valid" ELSE "Invalid")
         \o " (" \o FormatConfidence(report) \o "% confidence)"

\* the entries without those of the documents whose check failed: the fault
\* that C14 excludes
RECURSIVE BatchResultsWithoutFailures(_, _, _)
BatchResultsWithoutFailures(files, now, i) ==
    IF i > Len(files) THEN <<>>
    ELSE (IF check_document(files[i], now).document_type = "error" THEN <<>>
          ELSE <<BatchEntry(i, check_document(files[i], now))>>)
         \o BatchResultsWithoutFailures(files, now, i + 1)

\* results: one entry for every file, in the order of the files
RECURSIVE BatchResults(_, _, _)
BatchResults(files, now, i) ==
    IF i > Len(files) THEN <<>>
    ELSE <<BatchEntry(i, check_document(files[i], now))>>
         \o BatchResults(files, now, i + 1)

\* batch_check_documents(files), at the time now; a file is given by its text
batch_check_documents(files, now) ==
    IF Len(files) = 0 THEN "Please upload documents to check."
    ELSE Join("\n",
              <<"**Batch Document Analysis Results**", "">>
              \o BatchResults(files, now, 1)
              \o <<"", "---",
                   "**Summary:** Processed " \o ToString(Len(files)) \o " documents">>,
              1)

----------------------------------------------------------------------------
(* Analytics                                                               *)

\* the number of entries that the log keeps
HistoryLimit == 100

\* result.get(key, default)
Get(report, key, default) == IF key \in DOMAIN report THEN report[key] ELSE default

\* log_entry; the timestamp is the reading of the clock, which the model
\* counts: the entry appended as number n bears the timestamp n
LogEntry(report, timestamp) ==
    [timestamp |-> timestamp,
     document_type |-> Get(report, "document_type", "unknown"),
     valid |-> Get(report, "valid", FALSE),
     confidence |-> Get(report, "confidence", 0),
     security_score |-> Get(report, "security_score", 0)]

\* history[-100:]
LastEntries(history) ==
    SubSeq(history, Max(1, Len(history) - HistoryLimit + 1), Len(history))

\* the list after the trimming of log_validation, which keeps every entry:
\* the fault that C15 excludes
KeepAll(history) == history

\* the list after the trimming of log_validation
KeepLast(history) ==
    IF Len(history) > HistoryLimit THEN LastEntries(history) ELSE history

\* validation_history after log_validation(report), run from start to end
log_validation(history, report, timestamp) ==
    KeepLast(Append(history, LogEntry(report, timestamp)))

\* the breakdown with one total for all types, the length of the list: the
\* fault that C27 excludes
TypeBreakdownOfAll(history) ==
    [doc_type \in {history[i].document_type : i \in 1..Len(history)} |->
        [total |-> Len(history),
         valid |-> Cardinality({i \in 1..Len(history) :
                                   /\ history[i].document_type = doc_type
                                   /\ history[i].valid})]]

\* doc_types: for every type in the list its number of entries and of valid
\* entries
TypeBreakdown(history) ==
    [doc_type \in {history[i].document_type : i \in 1..Len(history)} |->
        [total |-> Cardinality({i \in 1..Len(history) :
                                   history[i].document_type = doc_type}),
         valid |-> Cardinality({i \in 1..Len(history) :
                                   /\ history[i].document_type = doc_type
                                   /\ history[i].valid})]]

\* the statistics of a list that is not empty; rates and averages in tenths.
\* round(x, 1) rounds the float x; for the logs of the model, whose
\* confidences and scores are multiples of 10, that is the quotient rounded
\* to the nearest tenth
Statistics(history, total, valid) ==
    [total |-> total,
     valid |-> valid,
     invalid |-> total - valid,
     success_rate |-> RoundHalfEven(valid * 1000, total),
     document_types |-> TypeBreakdown(history),
     average_confidence |->
        RoundHalfEven(SumSeq([i \in 1..total |-> history[i].confidence], 1), total),
     average_security_score |->
        RoundHalfEven(SumSeq([i \in 1..total |-> history[i].security_score], 1), total)]

\* get_statistics()
get_statistics(history) ==
    IF Len(history) = 0
    THEN [total |-> 0, valid |-> 0, invalid |-> 0, success_rate |-> 0]
    ELSE Statistics(history, Len(history),
                    Cardinality({i \in 1..Len(history) : history[i].valid}))

----------------------------------------------------------------------------
(* The documents of the model                                              *)

\* the texts a document starts from
BaseTexts ==
    <<"",
      "hi",
      "   hi there \n",
      "lorem ipsum dolor sit amet",
      "INCOME CERTIFICATE Tahsildar Rs. 45,000 Certificate No: INC/2024/001234 government seal",
      "1234 5678 9012 Male DOB: 01/01/1990 Address: Pune",
      "CASTE CERTIFICATE\nGovernment of Maharashtra\nName Ravi Patil caste OBC district Pune\nCertificate No 778 signature stamp seal of Tahsildar",
      "Birth Certificate Registrar father mother born at Nagpur 05/06/2001 Reg No: B-12",
      "pune cert no 1 authority",
      "tahsildar officer authority",
      "gender male dob",
      "certificate",
      "photocopy duplicate sample",
      "INCOME CERTIFICATE Tahsildar Rs. 45,000 Certificate No: INC/2024/001234 government seal valid upto 01/01/2020",
      "1234 5678 9012 Male DOB: 01/01/1990 Address: Pune caste sc st obc backward scheduled tribe cert no 5",
      "INCOME CERTIFICATE Tahsildar Rs 45000 government seal">>

\* the phrases that may follow, each at most once and in this order
Phrases ==
    <<" photocopy",
      " duplicate",
      " sample",
      " official signature",
      " revenue stamp letterhead",
      " valid upto 01/01/2020",
      " valid until 31/12/2099",
      "\nThis is to certify that the particulars given above are true and correct as per the records of this office",
      " annual income of the family from all sources",
      " domicile certificate residence",
      " authority address",
      " Rs. 45,000"
    >>

\* the largest number of phrases appended to a base text
MaxPhrases == 1

\* the strictly increasing index sequences of at most MaxPhrases phrases
RECURSIVE PhraseChoices(_, _)
PhraseChoices(from, n) ==
    IF n = 0 THEN {<<>>}
    ELSE {<<>>} \cup
         UNION {{<<k>> \o rest : rest \in PhraseChoices(k + 1, n - 1)} :
                    k \in from..Len(Phrases)}

RECURSIVE AppendPhrases(_, _, _)
AppendPhrases(base, choice, i) ==
    IF i > Len(choice) THEN base
    ELSE AppendPhrases(base \o Phrases[choice[i]], choice, i + 1)

Texts ==
    {AppendPhrases(BaseTexts[b], choice, 1) :
        b \in 1..Len(BaseTexts), choice \in PhraseChoices(1, MaxPhrases)}

----------------------------------------------------------------------------
(* The state machine: a caller holds a document text and calls the         *)
(* operations of the checker on it, one at a time.                         *)

\* the threads that may be inside log_validation at the same time
Threads == {1, 2}

\* the largest number of threads that start_scheduler creates
MaxStarts == 3

LoopThreads == 1..MaxStarts

\* the UpdateScheduler object after construction: not running, no thread
SchedulerCreated ==
    /\ is_running = FALSE
    /\ scheduler_thread = None
    /\ jobs = 0
    /\ loop = [t \in LoopThreads |-> "none"]

\* the analytics object after construction, no thread inside log_validation
EmptyLog ==
    /\ validation_history = <<>>
    /\ logged = <<>>
    /\ pc = [t \in Threads |-> "idle"]
    /\ local = [t \in Threads |-> <<>>]

Init ==
    /\ text \in Texts
    /\ op = "idle"
    /\ arg = None
    /\ result = None
    /\ EmptyLog
    /\ SchedulerCreated

\* detect_document_type(text)
DetectDocumentType ==
    /\ op = "idle"
    /\ op' = "detect_document_type"
    /\ arg' = None
    /\ result' = DetectionResult(DetailedScores(text))
    /\ UNCHANGED <<scheduler_state, text, log_state>>

\* the call is over: the caller drops the result and may call again
Return ==
    /\ op # "idle"
    /\ op' = "idle"
    /\ arg' = None
    /\ result' = None
    /\ UNCHANGED <<scheduler_state, text, log_state>>

\* the type ids a caller may pass: the registered ones and one that is not
TypeArguments == DOMAIN document_patterns \cup {"passport"}

\* validate_document(text, document_type)
ValidateDocument(document_type) ==
    /\ op = "idle"
    /\ op' = "validate_document"
    /\ arg' = document_type
    /\ result' = validate_document(text, document_type)
    /\ UNCHANGED <<scheduler_state, text, log_state>>

\* fallback_detection(text, file_path)
FallbackDetection ==
    /\ op = "idle"
    /\ op' = "fallback_detection"
    /\ arg' = None
    /\ result' = fallback_detection(text)
    /\ UNCHANGED <<scheduler_state, text, log_state>>

\* the clock readings of the model: the day and whether midnight has passed
Clock ==
    {[day |-> DayNumber(1, 1, 2020), past_midnight |-> FALSE],
     [day |-> DayNumber(1, 1, 2020), past_midnight |-> TRUE],
     [day |-> DayNumber(15, 12, 2099), past_midnight |-> TRUE]}

\* check_expiry_date(text, document_type), at the time now
CheckExpiryDate(now) ==
    /\ op = "idle"
    /\ op' = "check_expiry_date"
    /\ arg' = now
    /\ result' = check_expiry_date(text, now)
    /\ UNCHANGED <<scheduler_state, text, log_state>>

\* check_document(file_path), at the time now
CheckDocument(now) ==
    /\ op = "idle"
    /\ op' = "check_document"
    /\ arg' = now
    /\ result' = check_document(text, now)
    /\ UNCHANGED <<scheduler_state, text, log_state>>

Next ==
    \/ DetectDocumentType
    \/ \E now \in Clock : CheckDocument(now)
    \/ FallbackDetection
    \/ \E now \in Clock : CheckExpiryDate(now)
    \/ \E document_type \in TypeArguments : ValidateDocument(document_type)
    \/ Return

Spec == Init /\ [][Next]_vars

\* the calls of validate_document alone
NextValidate ==
    \/ \E document_type \in TypeArguments : ValidateDocument(document_type)
    \/ Return

SpecValidate == Init /\ [][NextValidate]_vars

\* the calls of check_expiry_date alone
NextExpiry ==
    \/ \E now \in Clock : CheckExpiryDate(now)
    \/ Return

SpecExpiry == Init /\ [][NextExpiry]_vars

----------------------------------------------------------------------------
(* Dated texts: a caller holds a text with validity clauses and calls      *)
(* check_expiry_date on it                                                  *)

\* the words that open a match of each of the validity patterns, in the
\* order of the patterns
Openings == <<"valid until ", "expires on ", "validity ", "valid upto ">>

\* date tokens: the day of the first clock readings; a date that is the 2nd
\* of January as day/month and the 1st of February as month/day, with either
\* separator; a date that only parses as month/day, with either separator;
\* and a token that is no date
DateTokens ==
    <<"01/01/2020", "02/01/2020", "02-01-2020", "12/31/2099", "12-31-2099",
      "99/99/2020">>

\* the largest number of validity clauses in a text
MaxClauses == 2

\* the sequences of n clauses or fewer, each with an opening that none of
\* the clauses before it has
RECURSIVE Clauses(_, _)
Clauses(used, n) ==
    IF n = 0 THEN {""}
    ELSE {""} \cup
         UNION {{" " \o Openings[k] \o DateTokens[d] \o rest :
                    d \in 1..Len(DateTokens), rest \in Clauses(used \cup {k}, n - 1)} :
                k \in (1..Len(Openings)) \ used}

DatedTexts == {"Certificate" \o clauses : clauses \in Clauses({}, MaxClauses)}

InitDated ==
    /\ text \in DatedTexts
    /\ op = "idle"
    /\ arg = None
    /\ result = None
    /\ EmptyLog
    /\ SchedulerCreated

SpecDated == InitDated /\ [][NextExpiry]_vars

----------------------------------------------------------------------------
(* Extracted texts: what the text-extraction layer hands to the body of    *)
(* check_document, the text of a document or a failure message             *)

\* texts of exceptions and paths of files that the messages quote
ExceptionTexts ==
    {"cannot identify image file", "tesseract is not installed or it's not in your PATH",
     "[Errno 13] Permission denied"}

FilePaths == {"aadhaar.png", "scan.pdf", "/tmp/income certificate.jpg"}

PdfNotAvailable == "PDF processing not available. Please install PyMuPDF or pdf2image."
OcrNotAvailable == "OCR not available. Please install pytesseract and pillow."
NoTextExtracted == "No text could be extracted from the image."

\* the largest number of pages of a PDF
MaxPages == 2

\* ' '.join(extracted_texts) for a PDF of n pages, every page of which
\* yields the same message of extract_text_from_image: a message that does
\* not start with "Error" is kept as the text of the page
PageMessages(message, n) == Join(" ", [i \in 1..n |-> message], 1)

\* the messages that the extraction layer returns instead of a text
FailureMessages ==
    {PdfNotAvailable, OcrNotAvailable, NoTextExtracted}
    \cup {"Error extracting text: " \o e : e \in ExceptionTexts}
    \cup {"File not found: " \o path : path \in FilePaths}
    \cup {"Error opening image: " \o e : e \in ExceptionTexts}
    \cup {"Error processing file: " \o e : e \in ExceptionTexts}
    \cup {PageMessages(message, n) :
             message \in {OcrNotAvailable, NoTextExtracted}, n \in 1..MaxPages}

ExtractedTexts == FailureMessages \cup {BaseTexts[b] : b \in 1..Len(BaseTexts)}

InitExtracted ==
    /\ text \in ExtractedTexts
    /\ op = "idle"
    /\ arg = None
    /\ result = None
    /\ EmptyLog
    /\ SchedulerCreated

\* the body of check_document after the extraction, for the extracted text
CheckExtracted(now) ==
    /\ op = "idle"
    /\ op' = "check_extracted_text"
    /\ arg' = now
    /\ result' = CheckExtractedText(text, now)
    /\ UNCHANGED <<scheduler_state, text, log_state>>

NextExtracted ==
    \/ \E now \in Clock : CheckExtracted(now)
    \/ Return

SpecExtracted == InitExtracted /\ [][NextExtracted]_vars

----------------------------------------------------------------------------
(* The update scheduler (update_scheduler.py): a caller starts and stops   *)
(* the scheduler, and every thread that a start has created runs           *)
(* run_scheduler on its own                                                *)

InitScheduler ==
    /\ text = ""
    /\ op = "idle"
    /\ arg = None
    /\ result = None
    /\ EmptyLog
    /\ SchedulerCreated

\* start_scheduler(): nothing but a warning if the flag is set; otherwise
\* three jobs are registered, the flag is set, and a new thread is created
\* and started
StartScheduler ==
    /\ op' = "start_scheduler"
    /\ arg' = None
    /\ IF is_running
       THEN /\ result' = "Scheduler is already running"
            /\ UNCHANGED scheduler_state
       ELSE /\ \E t \in LoopThreads :
                 /\ loop[t] = "none"
                 /\ \A u \in 1..(t - 1) : loop[u] # "none"
                 /\ loop' = [loop EXCEPT ![t] = "started"]
                 /\ scheduler_thread' = t
            /\ jobs' = jobs + 3
            /\ is_running' = TRUE
            /\ result' = None
    /\ UNCHANGED <<text, log_state>>

\* stop_scheduler(): the flag is cleared and the registry emptied
StopScheduler ==
    /\ op' = "stop_scheduler"
    /\ arg' = None
    /\ result' = None
    /\ is_running' = FALSE
    /\ jobs' = 0
    /\ UNCHANGED <<scheduler_thread, loop, text, log_state>>

\* run_scheduler, thread t: the initial check_for_updates()
InitialCheck(t) ==
    /\ loop[t] = "started"
    /\ loop' = [loop EXCEPT ![t] = "test"]
    /\ UNCHANGED <<is_running, scheduler_thread, jobs, text, op, arg, result, log_state>>

\* run_scheduler, thread t: while self.is_running
TestRunning(t) ==
    /\ loop[t] = "test"
    /\ loop' = [loop EXCEPT ![t] = IF is_running THEN "run_pending" ELSE "done"]
    /\ UNCHANGED <<is_running, scheduler_thread, jobs, text, op, arg, result, log_state>>

\* run_scheduler, thread t: schedule.run_pending(), which runs the jobs of the
\* registry that are due
RunPending(t) ==
    /\ loop[t] = "run_pending"
    /\ loop' = [loop EXCEPT ![t] = "sleep"]
    /\ UNCHANGED <<is_running, scheduler_thread, jobs, text, op, arg, result, log_state>>

\* run_scheduler, thread t: time.sleep(60)
Sleep(t) ==
    /\ loop[t] = "sleep"
    /\ loop' = [loop EXCEPT ![t] = "test"]
    /\ UNCHANGED <<is_running, scheduler_thread, jobs, text, op, arg, result, log_state>>

NextScheduler ==
    \/ StartScheduler
    \/ StopScheduler
    \/ \E t \in LoopThreads :
          \/ InitialCheck(t)
          \/ TestRunning(t)
          \/ RunPending(t)
          \/ Sleep(t)

SpecScheduler == InitScheduler /\ [][NextScheduler]_vars

----------------------------------------------------------------------------
(* The batch check: a caller submits a list of files                       *)

\* the texts of the files of a batch
BatchTexts == {BaseTexts[2], BaseTexts[5], BaseTexts[6]}

\* the largest number of files of a batch
MaxFiles == 3

\* the lists of at most n files
RECURSIVE FileLists(_)
FileLists(n) ==
    IF n = 0 THEN {<<>>}
    ELSE FileLists(n - 1)
         \cup {Append(files, file) : files \in {f \in FileLists(n - 1) : Len(f) = n - 1},
                                     file \in BatchTexts}

InitBatch ==
    /\ text = ""
    /\ op = "idle"
    /\ arg = None
    /\ result = None
    /\ EmptyLog
    /\ SchedulerCreated

\* batch_check_documents(files), at the time now
BatchCheckDocuments(files, now) ==
    /\ op = "idle"
    /\ op' = "batch_check_documents"
    /\ arg' = [files |-> files, now |-> now]
    /\ result' = batch_check_documents(files, now)
    /\ UNCHANGED <<scheduler_state, text, log_state>>

NextBatch ==
    \/ \E files \in FileLists(MaxFiles), now \in Clock : BatchCheckDocuments(files, now)
    \/ Return

SpecBatch == InitBatch /\ [][NextBatch]_vars

----------------------------------------------------------------------------
(* The analytics log, one call at a time                                   *)

\* the reports that callers log: the report of a failed check, a report
\* without any of the keys that log_validation reads, and the parts that
\* log_validation reads of the reports of a valid and of an invalid document
LoggedResults ==
    <<ProcessingErrorReport(CallExtractText("").exception),
      [document_type |-> "income_certificate", valid |-> TRUE,
       confidence |-> 700, security_score |-> 1000],
      [suggestion |-> "Document analysis completed."],
      [document_type |-> "aadhaar", valid |-> FALSE,
       confidence |-> 500, security_score |-> 500]>>

\* the numbers of entries the log starts with
InitialLengths == {0, HistoryLimit - 1}

\* the largest number of calls of log_validation after the start
MaxLogCalls == 3

\* the log after n calls, none of which evicted an entry
InitialHistory(n) ==
    [i \in 1..n |-> LogEntry(LoggedResults[(i % Len(LoggedResults)) + 1], i)]

InitLog ==
    /\ text = ""
    /\ op = "idle"
    /\ arg = None
    /\ result = None
    /\ \E n \in InitialLengths :
          /\ validation_history = InitialHistory(n)
          /\ logged = InitialHistory(n)
    /\ pc = [t \in Threads |-> "idle"]
    /\ local = [t \in Threads |-> <<>>]
    /\ SchedulerCreated

\* one more entry may be logged
MayLog == \E n \in InitialLengths : Len(logged) \in n..(n + MaxLogCalls - 1)

\* analytics.log_validation(report), run from start to end
LogValidation(report) ==
    /\ MayLog
    /\ validation_history'
         = log_validation(validation_history, report, Len(logged) + 1)
    /\ logged' = Append(logged, LogEntry(report, Len(logged) + 1))
    /\ op' = "log_validation"
    /\ arg' = report
    /\ result' = None
    /\ UNCHANGED <<scheduler_state, text, pc, local>>

\* analytics.get_statistics()
GetStatistics ==
    /\ op' = "get_statistics"
    /\ arg' = None
    /\ result' = get_statistics(validation_history)
    /\ UNCHANGED <<scheduler_state, text, log_state>>

NextLog ==
    \/ \E i \in 1..Len(LoggedResults) : LogValidation(LoggedResults[i])
    \/ GetStatistics

SpecLog == InitLog /\ [][NextLog]_vars

----------------------------------------------------------------------------
(* The analytics log under threads: log_validation holds no lock, and a    *)
(* thread may be interrupted between any two of its steps                  *)

\* self.validation_history.append(log_entry)
AppendEntry(t, report) ==
    /\ pc[t] = "idle"
    /\ MayLog
    /\ validation_history'
         = Append(validation_history, LogEntry(report, Len(logged) + 1))
    /\ logged' = Append(logged, LogEntry(report, Len(logged) + 1))
    /\ pc' = [pc EXCEPT ![t] = "len"]
    /\ UNCHANGED <<scheduler_state, text, op, arg, result, local>>

\* if len(self.validation_history) > 100
TestLength(t) ==
    /\ pc[t] = "len"
    /\ pc' = [pc EXCEPT ![t] = IF Len(validation_history) > HistoryLimit
                               THEN "slice" ELSE "idle"]
    /\ UNCHANGED <<scheduler_state, text, op, arg, result, validation_history, logged, local>>

\* self.validation_history[-100:]
SliceHistory(t) ==
    /\ pc[t] = "slice"
    /\ local' = [local EXCEPT ![t] = LastEntries(validation_history)]
    /\ pc' = [pc EXCEPT ![t] = "store"]
    /\ UNCHANGED <<scheduler_state, text, op, arg, result, validation_history, logged>>

\* self.validation_history = ...
StoreHistory(t) ==
    /\ pc[t] = "store"
    /\ validation_history' = local[t]
    /\ local' = [local EXCEPT ![t] = <<>>]
    /\ pc' = [pc EXCEPT ![t] = "idle"]
    /\ UNCHANGED <<scheduler_state, text, op, arg, result, logged>>

NextThreads ==
    \E t \in Threads :
        \/ \E i \in 1..Len(LoggedResults) : AppendEntry(t, LoggedResults[i])
        \/ TestLength(t)
        \/ SliceHistory(t)
        \/ StoreHistory(t)

SpecThreads == InitLog /\ [][NextThreads]_vars

----------------------------------------------------------------------------
(* The claims of the specification                                         *)

\* C1: for every text and every registered document type, validate_document
\* returns a validity score between 0.0 and 1.0, after the weighted sum and
\* after the red-flag penalty.
C1_ScoreInUnitInterval ==
    (op = "validate_document" /\ arg \in DOMAIN document_patterns)
        => (result.validity_score >= 0 /\ result.validity_score <= ScoreScale)

\* a validation whose red-flag penalty exceeds the weighted sum, the score
\* being held at 0
C1_Witness ==
    /\ op = "validate_document"
    /\ arg \in DOMAIN document_patterns
    /\ Len(result.red_flags) * (ScoreScale \div 10)
         > WeightedValidity(result.field_ratio, result.avg_field_confidence,
                            result.security_score,
                            IntegrityScore(result.integrity_check))
    /\ result.validity_score = 0

\* the text of a document whose extraction succeeds with enough text for
\* the check to go on
Checkable(txt) == ~ExtractionFailed(txt) /\ Len(Strip(txt)) >= 10

\* C2: in every validation report that check_document returns, valid holds
\* exactly if the validity score is at least 0.6, the red-flag list is empty
\* and the expiry result is not expired; a text with a score of at least 0.6,
\* no red flags and a past expiry date gets valid = false.
C2_ValidIffScoreFlagsExpiry ==
    (op = "check_document" /\ Checkable(text))
        => \A document_type \in {TypeOrFallback(detect_document_type(text), text)} \ {None} :
             \A validation_result \in {validate_document(text, document_type)} :
                result.valid <=>
                    /\ validation_result.validity_score >= (6 * ScoreScale) \div 10
                    /\ validation_result.red_flags = <<>>
                    /\ ~check_expiry_date(text, arg).expired

\* the text contains a fraud-indicator phrase
HasFraudIndicator(txt) == MatchedTerms(fraud_indicators, Lower(txt), 1) # <<>>

\* C3: whenever the text contains a fraud-indicator phrase, the validation
\* report has valid = false, whatever the validity score is, and the document
\* type is still classified: a fraud phrase that follows a text leaves the
\* detected type of that text as it was.
C3_FraudForcesInvalid ==
    /\ (op = "validate_document" /\ arg \in DOMAIN document_patterns
            /\ HasFraudIndicator(text))
        => result.valid = FALSE
    /\ op = "detect_document_type"
        => \A b \in 1..Len(BaseTexts), p \in 1..Len(Phrases) :
              (text = BaseTexts[b] \o Phrases[p] /\ HasFraudIndicator(Phrases[p]))
                => result.document_type = detect_document_type(BaseTexts[b])

\* a text with a fraud phrase whose score after the penalty is still at least
\* 0.6, reported invalid
C3_Witness ==
    /\ op = "validate_document"
    /\ arg \in DOMAIN document_patterns
    /\ HasFraudIndicator(text)
    /\ result.validity_score >= (6 * ScoreScale) \div 10
    /\ result.valid = FALSE

\* C4: when the extracted text has fewer than 10 characters after trimming,
\* check_document returns the insufficient-text outcome (valid = false,
\* confidence 0, 'Insufficient text extracted') without classification,
\* validation or expiry resolution; with 10 characters or more it never
\* returns this outcome.
C4_InsufficientText ==
    (op = "check_document" /\ ~ExtractionFailed(text))
        => IF Len(Strip(text)) < 10
           THEN /\ result.missing_fields = <<"Insufficient text extracted">>
                /\ result.valid = FALSE
                /\ result.confidence = 0
                /\ "expiry_info" \notin DOMAIN result
           ELSE result.missing_fields # <<"Insufficient text extracted">>

\* C5: check_document asks the fallback classifier only after the primary
\* classifier found no type, never overrides a primary match, returns the
\* 'Document type not recognized' report, with a sample of the first 200
\* characters of the text at most, exactly when both classifiers find no type,
\* and validates only after a type was obtained.
C5_FallbackAfterPrimary ==
    (op = "check_document" /\ Checkable(text))
        => \A primary \in {detect_document_type(text)} :
             \A document_type \in {TypeOrFallback(primary, text)} :
                /\ primary # None => result.document_type = primary
                /\ document_type # None => result.document_type = document_type
                /\ (document_type = None)
                     <=> result.missing_fields = <<"Document type not recognized">>
                /\ document_type = None
                     => /\ "extracted_text_sample" \in DOMAIN result
                        /\ SubSeq(result.extracted_text_sample, 1, Min(200, Len(text)))
                             = SubSeq(text, 1, Min(200, Len(text)))
                /\ "expiry_info" \in DOMAIN result => document_type # None

\* C6: check_document never raises to its caller: for every input it returns
\* a report with document_type, valid, missing_fields, suggestion and
\* confidence, and a report of a failure has valid = false and confidence 0.
C6_AlwaysStructuredReport ==
    op = "check_document"
        => /\ {"document_type", "valid", "missing_fields", "suggestion", "confidence"}
                \subseteq DOMAIN result
           /\ result.document_type \in {"error", "unknown"}
                => (result.valid = FALSE /\ result.confidence = 0)

\* a check in which the extraction step failed, answered by an error report
C6_Witness ==
    /\ op = "check_document"
    /\ CallExtractText(text).raised
    /\ result.document_type = "error"
    /\ result.valid = FALSE
    /\ result.confidence = 0

\* C7: validate_document called with a type that is not registered returns a
\* report with valid = false, missing_fields = ['Unknown document type'] and a
\* validity score of 0.
C7_UnknownTypeReport ==
    (op = "validate_document" /\ arg \notin DOMAIN document_patterns)
        => /\ result.valid = FALSE
           /\ result.missing_fields = <<"Unknown document type">>
           /\ "validity_score" \in DOMAIN result
           /\ result.validity_score = 0

\* C8: detect_document_type returns a type whose total
\* 0.4*keywords + 0.3*patterns + 0.2*context + 0.1*structure is the maximum
\* over the registered types if and only if that maximum is at least 2.0, and
\* of several types with the maximum total the one registered first.
C8_MaximumTotalAboveThreshold ==
    op = "detect_document_type"
        => LET tenths(i) ==
                   4 * result.detailed_scores[i].breakdown.keywords
                   + 3 * result.detailed_scores[i].breakdown.patterns
                   + 2 * result.detailed_scores[i].breakdown.context
                   + result.detailed_scores[i].breakdown.structure
               maximal(i) == \A j \in 1..Len(DocTypes) : tenths(j) <= tenths(i)
           IN  \A i \in 1..Len(DocTypes) :
                  (maximal(i) /\ \A j \in 1..(i - 1) : ~maximal(j))
                    => result.document_type
                         = (IF tenths(i) >= 20 THEN DocTypes[i] ELSE None)

\* C9: fallback_detection returns 'aadhaar' whenever at least 2 of the 4
\* indicators (12-digit grouped number, gender term, date-of-birth term,
\* address term) match, even beside a certificate term; otherwise, with a
\* certificate term, the first sub-type in the order income, caste, domicile,
\* birth whose keyword is present; otherwise no match.
C9_FallbackDecisionTable ==
    op = "fallback_detection"
        => LET lower == Lower(text)
               indicators ==
                   {n \in {"number", "gender", "dob", "address"} :
                       CASE n = "number" ->
                                re_search("\\d{4}[\\s\\-]*\\d{4}[\\s\\-]*\\d{4}", text)
                         [] n = "gender" ->
                                Contains(lower, "male") \/ Contains(lower, "female")
                         [] n = "dob" ->
                                Contains(lower, "dob") \/ Contains(lower, "date of birth")
                         [] n = "address" -> Contains(lower, "address")}
               subtypes == <<"income", "caste", "domicile", "birth">>
               present == {k \in 1..Len(subtypes) : Contains(lower, subtypes[k])}
           IN  IF Cardinality(indicators) >= 2 THEN result = "aadhaar"
               ELSE IF Contains(lower, "certificate") /\ present # {}
               THEN result = subtypes[MinOr(present, 0)] \o "_certificate"
               ELSE result = None

\* a text with two aadhaar indicators and a certificate term beside a
\* sub-type keyword, classified as aadhaar
C9_Witness ==
    /\ op = "fallback_detection"
    /\ Contains(Lower(text), "certificate")
    /\ Contains(Lower(text), "domicile")
    /\ aadhaar_score(text) >= 2
    /\ result = "aadhaar"

\* the text of Scenario A: the income-certificate title, an issuing authority,
\* an income amount after 'Rs.', a certificate number and a government seal,
\* with no fraud-indicator phrase and no expiry date
ScenarioA(txt) ==
    /\ Contains(Lower(txt), "income certificate")
    /\ Contains(Lower(txt), "tahsildar")
    /\ Contains(Lower(txt), "rs.")
    /\ re_search(AnnualIncome, Lower(txt))
    /\ re_search(CertificateNumber, Lower(txt))
    /\ Contains(Lower(txt), "government seal")
    /\ ~HasFraudIndicator(txt)
    /\ FirstCaptured(CapturedDates(Lower(txt), 1)) = None

\* C10: a text of Scenario A is classified as income_certificate and
\* reported with valid = true and a validity score of at least 0.6.
C10_ScenarioA ==
    /\ (op = "detect_document_type" /\ ScenarioA(text))
        => result.document_type = "income_certificate"
    /\ (op = "validate_document" /\ arg = "income_certificate" /\ ScenarioA(text))
        => (result.valid /\ result.validity_score >= (6 * ScoreScale) \div 10)

\* the text of Scenario C: a 12-digit grouped number, a gender term, a
\* date-of-birth term with a date and an address term
ScenarioC(txt) ==
    /\ re_search("\\b\\d{4}[\\s\\-]*\\d{4}[\\s\\-]*\\d{4}\\b", txt)
    /\ Contains(Lower(txt), "male")
    /\ Contains(Lower(txt), "dob") \/ Contains(Lower(txt), "date of birth")
    /\ re_search("\\d{1,2}[/-]\\d{1,2}[/-]\\d{4}", txt)
    /\ Contains(Lower(txt), "address")

\* no keyword of a registered type occurs in the text
NoKeyword(txt) ==
    \A t \in DOMAIN document_patterns :
        CountTerms(document_patterns[t].keywords, JoinSplit(Lower(txt))) = 0

\* the type the primary detection, or failing that the fallback, gives, and
\* the share of the 12-digit number in the aadhaar scores: 2 + 3 among the
\* patterns, 5 in the context beside 2 for each of the gender and the
\* address term, and a total of at least 2.0
ClassifiedAadhaar(detection, txt) ==
    /\ TypeOrFallback(detection.document_type, txt) = "aadhaar"
    /\ detection.detailed_scores[1].breakdown.patterns >= 2 + 3
    /\ detection.detailed_scores[1].breakdown.context >= 5 + 2 + 2
    /\ ~FloatLess(detection.detailed_scores[1].total, MinimumThreshold)

\* C11 as stated: a text of Scenario C in which no keyword of a registered
\* type occurs is classified as aadhaar by the primary detection or, failing
\* that, the fallback, and its aadhaar total is at least 2.0.
C11_ScenarioCAsStated ==
    (op = "detect_document_type" /\ ScenarioC(text) /\ NoKeyword(text))
        => ClassifiedAadhaar(result, text)

\* C11, amended: a text of Scenario C in which no keyword of a registered
\* type matches, neither whole nor by one of its words (the keyword score of
\* every type is 0), is classified as aadhaar by the primary detection or,
\* failing that, the fallback, and its aadhaar total is at least 2.0.
C11_ScenarioC ==
    (op = "detect_document_type" /\ ScenarioC(text)
        /\ \A i \in 1..Len(DocTypes) : result.detailed_scores[i].breakdown.keywords = 0)
        => ClassifiedAadhaar(result, text)

\* a text of Scenario C without any keyword match, detected as aadhaar
C11_Witness ==
    /\ op = "detect_document_type"
    /\ ScenarioC(text)
    /\ \A i \in 1..Len(DocTypes) : result.detailed_scores[i].breakdown.keywords = 0
    /\ result.document_type = "aadhaar"

\* the expired flag of a report, FALSE for a report without expiry resolution
ExpiredIn(report) ==
    IF "expiry_info" \in DOMAIN report THEN report.expiry_info.expired ELSE FALSE

FirstReading == [day |-> DayNumber(1, 1, 2020), past_midnight |-> FALSE]

MatchesType(phrase, document_type) ==
    \/ CountTerms(document_patterns[document_type].keywords, Lower(phrase)) > 0
    \/ \E i \in 1..Len(document_patterns[document_type].patterns) :
          /\ document_patterns[document_type].patterns[i][1] # "name"
          /\ re_search(document_patterns[document_type].patterns[i][2], Lower(phrase))
    \/ CountTerms(document_patterns[document_type].security_features, Lower(phrase)) > 0

\* C13: for a text classified as type T, appending a substring that matches a
\* keyword, a field pattern or a security feature of T, and that holds no
\* fraud-indicator phrase, never decreases the validity score computed for T.
C13_MatchingSubstringNeverDecreases ==
    (op = "validate_document" /\ arg \in DOMAIN document_patterns)
        => \A b \in 1..Len(BaseTexts), p \in 1..Len(Phrases) :
              (/\ text = BaseTexts[b] \o Phrases[p]
               /\ detect_document_type(BaseTexts[b]) = arg
               /\ ~HasFraudIndicator(Phrases[p])
               /\ MatchesType(Phrases[p], arg))
                => result.validity_score
                     >= validate_document(BaseTexts[b], arg).validity_score

\* s.split("\n"): the lines of a text
RECURSIVE LinesFrom(_, _)
LinesFrom(s, i) ==
    IF i > Len(s) + 1 THEN <<>>
    ELSE <<SubSeq(s, i, RunEndNot(s, i, {"\n"}) - 1)>>
         \o LinesFrom(s, RunEndNot(s, i, {"\n"}) + 1)

\* C14: batch_check_documents on N >= 1 documents produces exactly N result
\* entries, between the two heading lines and the three closing lines; entry
\* i bears the number i and the type and the status of the report of the
\* i-th document, and the entry of a document whose check failed is there as
\* well.
C14_BatchKeepsCountAndOrder ==
    (op = "batch_check_documents" /\ Len(arg.files) >= 1)
        => LET lines == LinesFrom(result, 1)
           IN  /\ Len(lines) = Len(arg.files) + 5
               /\ \A i \in 1..Len(arg.files) :
                     \A report \in {check_document(arg.files[i], arg.now)} :
                        StartsWith(lines[i + 2],
                                   "**Document " \o ToString(i) \o ":** "
                                   \o Title(Replace(report.document_type, "_", " ", 1), 1)
                                   \o " - "
                                   \o (IF report.valid THEN "Valid" ELSE "Invalid"))

\* a batch of several different documents, the check of the first of which
\* failed, with an entry for each
C14_Witness ==
    /\ op = "batch_check_documents"
    /\ Len(arg.files) >= 2
    /\ arg.files[1] # arg.files[2]
    /\ check_document(arg.files[1], arg.now).document_type = "error"
    /\ Len(LinesFrom(result, 1)) = Len(arg.files) + 5

\* the last n entries of a list
LastOf(entries, n) == SubSeq(entries, Len(entries) - n + 1, Len(entries))

\* C15: after any sequence of log_validation calls the log holds at most 100
\* entries, and they are the most recent min(n, 100) of the n entries logged,
\* in the order in which they were logged.
C15_LogKeepsMostRecent ==
    /\ Len(validation_history) <= 100
    /\ validation_history = LastOf(logged, Min(Len(logged), 100))

\* a call that took the log beyond 100 entries and evicted the oldest one
C15_Witness ==
    /\ op = "log_validation"
    /\ Len(logged) > 100
    /\ Len(validation_history) = 100
    /\ validation_history[1] = logged[Len(logged) - 99]
    /\ validation_history[100] = logged[Len(logged)]

\* C16: for every state of the log, the empty log included, get_statistics
\* returns a summary with total, valid, invalid, success rate, per-type
\* breakdown, average confidence and average security score.
C16_StatisticsComplete ==
    op = "get_statistics"
        => {"total", "valid", "invalid", "success_rate", "document_types",
            "average_confidence", "average_security_score"} \subseteq DOMAIN result

\* C17: when log_validation is called from several threads, no reader ever
\* observes a log of more than 100 entries, and once all calls have returned
\* every logged entry that is among the most recent 100 is in the log.
C17_ConcurrentAppendsSerialized ==
    /\ Len(validation_history) <= 100
    /\ (\A t \in Threads : pc[t] = "idle")
        => \A i \in 1..Len(logged) :
              i > Len(logged) - 100
                => \E k \in 1..Len(validation_history) : validation_history[k] = logged[i]

\* C18: the score of validate_document, before the red-flag penalty, is
\* 0.3 * found/required + 0.25 * (mean field confidence / 100)
\* + 0.25 * security score + 0.2 * (text quality + structure score) / 100,
\* the mean taken over all required fields, a missing field counting 0. Both
\* sides are multiplied by 2000 * required; the penalty of 0.1 for each red
\* flag and the floor at 0 lead from that score to the reported one.
C18_WeightedScore ==
    (op = "validate_document" /\ arg \in DOMAIN document_patterns)
        => LET required == Len(document_patterns[arg].required_fields)
               found == Len(result.found_fields)
               confidences == SumSeq(result.field_confidence, 1)
               quality == result.integrity_check.text_quality
                          + result.integrity_check.structure_score
               weighted == ScoreScale * (600 * found + 5 * confidences
                                         + 4 * required * quality)
                           + 500 * required * result.security_score
               penalty == 200 * required * ScoreScale * Len(result.red_flags)
           IN  /\ Len(result.field_confidence) = required
               /\ \A i \in 1..required :
                     (\E k \in 1..Len(result.missing_fields) :
                         result.missing_fields[k] = document_patterns[arg].required_fields[i])
                        => result.field_confidence[i] = 0
               /\ 2000 * required * result.validity_score = Max(0, weighted - penalty)

\* a validation with found fields and a missing field, a security feature
\* and no red flag, whose score is the weighted sum itself
C18_Witness ==
    /\ op = "validate_document"
    /\ arg \in DOMAIN document_patterns
    /\ Len(result.found_fields) >= 1
    /\ Len(result.missing_fields) >= 1
    /\ result.security_score > 0
    /\ Len(result.red_flags) = 0
    /\ result.validity_score > 0

\* C19: the red flags are the entries of the fraud-indicator list found in
\* the text, one for every entry of the list, and the score is the weighted
\* sum less 0.1 for each of them, or 0 if that is negative; the list is not
\* deduplicated, so a text with "duplicate" in it has two red flags for it.
C19_PenaltyPerListEntry ==
    (op = "validate_document" /\ arg \in DOMAIN document_patterns)
        => LET matching == {k \in 1..Len(fraud_indicators) :
                               Contains(Lower(text), fraud_indicators[k])}
               unpenalized ==
                   WeightedValidity(result.field_ratio, result.avg_field_confidence,
                                    result.security_score,
                                    IntegrityScore(result.integrity_check))
               tenth == ScoreScale \div 10
           IN  /\ Len(result.red_flags) = Cardinality(matching)
               /\ IF unpenalized >= Cardinality(matching) * tenth
                  THEN result.validity_score = unpenalized - Cardinality(matching) * tenth
                  ELSE result.validity_score = 0
               /\ Contains(Lower(text), "duplicate")
                    => Cardinality({k \in 1..Len(result.red_flags) :
                                       result.red_flags[k] = "duplicate"}) = 2

\* a validation of a text with "duplicate" in it, with the two red flags and
\* a score that the penalty of 0.2 left above 0
C19_Witness ==
    /\ op = "validate_document"
    /\ arg \in DOMAIN document_patterns
    /\ Contains(Lower(text), "duplicate")
    /\ result.red_flags = <<"duplicate", "duplicate">>
    /\ result.validity_score > 0

\* the number of entries of a list that equal a value
Occurrences(list, value) == Cardinality({k \in 1..Len(list) : list[k] = value})

\* C20: every required field has a match count m, the matches of its
\* extraction pattern or, for signature_stamp, issuing_authority and address,
\* the curated terms in the text; the field is found iff m >= 1, its
\* confidence is min(100, m * w + b) when found and 0 when missing, with
\* (w, b) = (30, 40) for a pattern field and (25, 25), (30, 30), (20, 40) for
\* the three heuristic fields, and it is in exactly one of found_fields and
\* missing_fields.
C20_FieldConfidence ==
    (op = "validate_document" /\ arg \in DOMAIN document_patterns)
        => \A i \in 1..Len(document_patterns[arg].required_fields) :
              \A field \in {document_patterns[arg].required_fields[i]} :
                 \A pattern \in {PatternOf(document_patterns[arg].patterns, field)} :
                    \A m \in {CASE pattern # None ->
                                     re_finditer_count(pattern, Lower(text))
                                [] pattern = None /\ field = "signature_stamp" ->
                                     CountTerms(signature_terms, Lower(text))
                                [] pattern = None /\ field = "issuing_authority" ->
                                     CountTerms(authority_terms, Lower(text))
                                [] pattern = None /\ field = "address" ->
                                     CountTerms(address_terms, Lower(text))
                                [] OTHER -> -1} :
                       \A wb \in {CASE pattern # None -> <<30, 40>>
                                    [] pattern = None /\ field = "signature_stamp" -> <<25, 25>>
                                    [] pattern = None /\ field = "issuing_authority" -> <<30, 30>>
                                    [] OTHER -> <<20, 40>>} :
                          /\ m >= 0
                          /\ Occurrences(result.found_fields, field)
                               = (IF m >= 1 THEN 1 ELSE 0)
                          /\ Occurrences(result.missing_fields, field)
                               = (IF m >= 1 THEN 0 ELSE 1)
                          /\ result.field_confidence[i]
                               = (IF m >= 1
                                  THEN (IF m * wb[1] + wb[2] < 100
                                        THEN m * wb[1] + wb[2] ELSE 100)
                                  ELSE 0)

\* a validation with a missing field, a found field below 100 and a pattern
\* field whose three matches or more are capped at 100
C20_Witness ==
    /\ op = "validate_document"
    /\ arg \in DOMAIN document_patterns
    /\ Len(result.missing_fields) >= 1
    /\ \E i \in 1..Len(result.field_confidence) :
          result.field_confidence[i] \in 1..99
    /\ \E i \in 1..Len(document_patterns[arg].required_fields) :
          \A pattern \in {PatternOf(document_patterns[arg].patterns,
                                    document_patterns[arg].required_fields[i])} :
             /\ pattern # None
             /\ re_finditer_count(pattern, Lower(text)) >= 3
             /\ result.field_confidence[i] = 100

\* C21: check_expiry_date uses the token captured by the first of the four
\* templates that matches the text, and no other: if that token parses under
\* none of the four formats there is no expiry date, whatever a later
\* template captures; otherwise the date is the token read under the first
\* of the formats D/M/Y, D-M-Y, M/D/Y, M-D-Y that parses it, so a token that
\* is a date both ways is read as day/month.
C21_FirstTemplateFirstFormat ==
    op = "check_expiry_date"
        => \A captured \in {CapturedDates(Lower(text), 1)} :
              LET matched == {k \in 1..Len(captured) : captured[k] # None}
              IN  IF matched = {} THEN ~result.has_expiry
                  ELSE \A token \in {captured[CHOOSE k \in matched :
                                                 \A j \in matched : k <= j]} :
                          LET parsing == {f \in 1..Len(DateFormats) :
                                             Parses(token, DateFormats[f])}
                          IN  IF parsing = {} THEN ~result.has_expiry
                              ELSE \A fmt \in {DateFormats[CHOOSE f \in parsing :
                                                              \A g \in parsing : f <= g]} :
                                      /\ result.has_expiry
                                      /\ result.expiry_date = token
                                      /\ result.expired
                                           = (DaysUntil(Strptime(token, fmt), arg) < 0)
                                      /\ result.expires_soon
                                           = (DaysUntil(Strptime(token, fmt), arg) \in 0..29)
                                      /\ (\E f \in parsing : DateFormats[f].day_first)
                                            => fmt.day_first

\* a check of a text whose first matching template captures a token that is
\* no date and a later template of which captures a date: no expiry date
C21_Witness ==
    /\ op = "check_expiry_date"
    /\ ~result.has_expiry
    /\ \E k \in 1..Len(validity_patterns) :
          /\ CapturedDate(validity_patterns[k], Lower(text)) # None
          /\ FirstFormat(CapturedDate(validity_patterns[k], Lower(text))) = 0
          /\ \A j \in 1..(k - 1) : CapturedDate(validity_patterns[j], Lower(text)) = None
          /\ \E j \in (k + 1)..Len(validity_patterns) :
                /\ CapturedDate(validity_patterns[j], Lower(text)) # None
                /\ FirstFormat(CapturedDate(validity_patterns[j], Lower(text))) # 0

\* C22: in every expiry result expired is true iff a date was resolved and
\* it lies before the current time, expires_soon is true iff a date was
\* resolved and the whole days until it are at least 0 and fewer than 30;
\* the two are never both true, and both are false without an expiry date.
C22_ExpiredAndExpiresSoon ==
    op = "check_expiry_date"
        => /\ ~(result.expired /\ result.expires_soon)
           /\ ~result.has_expiry => (~result.expired /\ ~result.expires_soon)
           /\ result.has_expiry
                => \A day \in {Strptime(result.expiry_date,
                                        DateFormats[FirstFormat(result.expiry_date)])} :
                      \A whole_days \in {IF arg.past_midnight THEN day - arg.day - 1
                                         ELSE day - arg.day} :
                         /\ result.expired
                              = (day < arg.day \/ (day = arg.day /\ arg.past_midnight))
                         /\ result.expires_soon = (whole_days >= 0 /\ whole_days < 30)

\* a check, later in the day, of a document whose date is the day of the
\* check: it expired at midnight
C22_Witness ==
    /\ op = "check_expiry_date"
    /\ result.has_expiry
    /\ result.expired
    /\ arg.past_midnight
    /\ Strptime(result.expiry_date, DateFormats[FirstFormat(result.expiry_date)]) = arg.day

\* C23: whenever the expiry result of a checked document is expires_soon,
\* the suggestion of the report contains the renewal-soon warning and valid
\* is as validation computed it; whenever a document that validation found
\* valid is expired, valid is false and the suggestion contains the expiry
\* warning. The report is that of check_document from the extracted text on.
C23_ExpiryWarnings ==
    (op = "check_expiry_date" /\ Checkable(text))
        => \A report \in {CheckExtractedText(text, arg)} :
              "expiry_info" \in DOMAIN report
                => \A valid \in {validate_document(text, report.document_type).valid} :
                      /\ result.expires_soon
                            => /\ Contains(report.suggestion,
                                           "Document expires soon. Consider renewal.")
                               /\ report.valid = valid
                      /\ (valid /\ result.expired)
                            => /\ ~report.valid
                               /\ Contains(report.suggestion,
                                           "Document has expired. Please renew.")

\* C24: whenever the security score of a checked document is below 0.5 (50
\* in the report, which holds it as a percentage in tenths), the suggestion
\* of the report contains the warning of insufficient security features;
\* whenever the report has missing fields or security warnings, the
\* suggestion lists them. The report is that of check_document from the
\* extracted text on.
C24_SuggestionListsFindings ==
    (op = "check_expiry_date" /\ Checkable(text))
        => \A report \in {CheckExtractedText(text, arg)} :
              "expiry_info" \in DOMAIN report
                => /\ report.security_score < 500
                        => Contains(report.suggestion,
                                    "Insufficient security features detected.")
                   /\ Len(report.missing_fields) > 0
                        => Contains(report.suggestion,
                                    "Missing required fields: "
                                    \o Join(", ", report.missing_fields, 1))
                   /\ Len(report.security_warnings) > 0
                        => Contains(report.suggestion,
                                    "Security concerns: "
                                    \o Join("; ", report.security_warnings, 1))

\* C25: every failure message that the extraction layer returns instead of
\* the text of a document is recognised as an extraction failure and yields
\* the error report with 'Text extraction failed'; it is never classified
\* or validated.
C25_FailureMessagesRecognised ==
    (op = "check_extracted_text" /\ text \in FailureMessages)
        => /\ result.document_type = "error"
           /\ result.missing_fields = <<"Text extraction failed">>
           /\ "found_fields" \notin DOMAIN result

\* C26: for a document whose text extraction yields at least 10 characters,
\* check_document reaches the type classification and returns either the
\* report of an unrecognized type or a full validation report, and never
\* the report of a processing error.
C26_ReachesClassification ==
    (op = "check_document" /\ Checkable(text))
        => /\ result.document_type # "error"
           /\ \/ result.missing_fields = <<"Document type not recognized">>
              \/ "expiry_info" \in DOMAIN result

\* the sum of a field over the types of a breakdown
RECURSIVE SumOverTypes(_, _, _)
SumOverTypes(breakdown, types, field) ==
    IF types = {} THEN 0
    ELSE LET doc_type == CHOOSE t \in types : TRUE
         IN  breakdown[doc_type][field]
             + SumOverTypes(breakdown, types \ {doc_type}, field)

\* C27: for every state of the log the summary of get_statistics agrees
\* with the retained entries: total is their number, valid is the number of
\* the valid ones and valid + invalid = total, the per-type totals sum to
\* total and the per-type valid counts sum to valid; the summary of the
\* empty log, which has no breakdown, has a total of 0.
C27_StatisticsConsistent ==
    op = "get_statistics"
        => /\ result.total = Len(validation_history)
           /\ result.valid = Cardinality({i \in 1..Len(validation_history) :
                                             validation_history[i].valid})
           /\ result.valid + result.invalid = result.total
           /\ IF "document_types" \in DOMAIN result
              THEN /\ SumOverTypes(result.document_types,
                                   DOMAIN result.document_types, "total") = result.total
                   /\ SumOverTypes(result.document_types,
                                   DOMAIN result.document_types, "valid") = result.valid
              ELSE result.total = 0

\* the summary of a log that has evicted an entry and holds valid and
\* invalid entries of several types
C27_Witness ==
    /\ op = "get_statistics"
    /\ Len(logged) > Len(validation_history)
    /\ result.total = 100
    /\ result.valid > 0
    /\ result.invalid > 0
    /\ Cardinality(DOMAIN result.document_types) >= 2

HeuristicFields == {"signature_stamp", "issuing_authority", "address"}

\* C29: every required field of every registered type has an extraction
\* pattern or is one of the heuristic fields, so that no field is found by
\* default; every found field has a confidence of at least 50, and a field
\* is found only if its pattern or one of its terms matched the text.
C29_NoFieldFoundByDefault ==
    /\ \A t \in DOMAIN document_patterns :
          \A i \in 1..Len(document_patterns[t].required_fields) :
             \/ PatternOf(document_patterns[t].patterns,
                          document_patterns[t].required_fields[i]) # None
             \/ document_patterns[t].required_fields[i] \in HeuristicFields
    /\ (op = "validate_document" /\ arg \in DOMAIN document_patterns)
          => \A i \in 1..Len(document_patterns[arg].required_fields) :
                \A field \in {document_patterns[arg].required_fields[i]} :
                   (\E k \in 1..Len(result.found_fields) : result.found_fields[k] = field)
                      => /\ result.field_confidence[i] >= 50
                         /\ \A pattern \in {PatternOf(document_patterns[arg].patterns, field)} :
                               IF pattern # None THEN re_search(pattern, Lower(text))
                               ELSE CountTerms(CASE field = "signature_stamp" -> signature_terms
                                                 [] field = "issuing_authority" -> authority_terms
                                                 [] OTHER -> address_terms,
                                               Lower(text)) >= 1

\* a validation with a heuristic field found at the lowest confidence, 50,
\* and a field missing
C29_Witness ==
    /\ op = "validate_document"
    /\ arg \in DOMAIN document_patterns
    /\ \E i \in 1..Len(document_patterns[arg].required_fields) :
          /\ document_patterns[arg].required_fields[i] \in HeuristicFields
          /\ result.field_confidence[i] = 50
    /\ Len(result.missing_fields) >= 1

\* C30: whatever the sequence of start_scheduler and stop_scheduler calls
\* (a start shortly after a stop included), at most one scheduler loop thread
\* is in schedule.run_pending(), executing scheduled update checks, at any
\* time.
C30_SingleSchedulerLoop ==
    Cardinality({t \in LoopThreads : loop[t] = "run_pending"}) <= 1

====
